---- MODULE Spec2Model ----
(***************************************************************************)
(* Event-sourced core of sb5s: the Entity Store (VecRepository), the       *)
(* Domain Service (PersonService), the Event Log (EventStore and its       *)
(* processing loop), the Projection Runtime (ProjectionManager) and the    *)
(* Location Occupancy Projection.                                          *)
(*                                                                         *)
(* Three specifications share the variables:                               *)
(*   SpecSvc   a VecRepository driven directly, then handed to a           *)
(*             PersonService whose event channel is held by the caller     *)
(*             (the set-up of the unit tests of person_service.rs);        *)
(*   SpecProj  a fresh LocationOccupancyProjection fed events one by one   *)
(*             (the set-up of the unit tests of location_occupancy.rs);    *)
(*   Spec      the threads started by CoreApi::new() and the commands      *)
(*             issued through PersonApi afterwards.                        *)
(***************************************************************************)
EXTENDS Integers, Sequences, FiniteSets, TLC

\* ---------------------------------------------------------------- bounds
\* commands issued through the service in one run
MaxCmds == 3
\* direct repository operations before the service is constructed
MaxRepoOps == 3
\* events fed to the stand-alone projection
MaxFeed == 4
\* largest person id in the stand-alone projection's events
MaxPid == 1
\* persons created before the most crowded location is asked for
MaxCrowd == 6
\* commands issued through PersonApi before the CoreApi is dropped (SpecLive)
MaxLiveCmds == 2
\* events in the snapshot, and on the feed, of the projection of SpecReplay
MaxHist == 2

\* ------------------------------------------------------------ data model
\* Location { x, y }
Locations == {[x |-> 10, y |-> 20], [x |-> 30, y |-> 40]}

\* Person { id, name, location }
Person(id, name, location) == [id |-> id, name |-> name, location |-> location]

\* PersonEvent::PersonCreated wrapped in DomainEvent::Person
PersonCreated(person_id, name, location) ==
    [type |-> "PersonCreated", person_id |-> person_id, name |-> name,
     location |-> location]

\* PersonEvent::PersonMoved wrapped in DomainEvent::Person
PersonMoved(person_id, from_location, to_location) ==
    [type |-> "PersonMoved", person_id |-> person_id,
     from_location |-> from_location, to_location |-> to_location]

\* Option<T> is a sequence of length at most one
None == <<>>
Some(v) == <<v>>

\* Result<T, E>
Ok(v) == [ok |-> TRUE, val |-> v]
Err(e) == [ok |-> FALSE, err |-> e]

\* VecRepositoryError::NotFound
NotFound == "NotFound"

\* ------------------------------------------------- Entity Store (pure)
\* Each operation maps the Vec<Option<T>> `d` to the new vector and the
\* returned Result.  An id `i` addresses the slot d[i + 1].

\* VecRepository::get
get(d, id) ==
    IF id >= Len(d) THEN Err(NotFound)
    ELSE IF d[id + 1] # None THEN Ok(d[id + 1][1])
    ELSE Err(NotFound)

\* VecRepository::add
add(d, entity) ==
    [data |-> Append(d, Some(entity)), result |-> Ok(Len(d))]

\* remove that takes the slot out of the vector (Vec::remove) instead of
\* emptying it, so that the entities after it move down by one id
MutRemoveShifts(d, id) ==
    IF id >= Len(d) THEN [data |-> d, result |-> Err(NotFound)]
    ELSE IF d[id + 1] # None
         THEN [data |-> SubSeq(d, 1, id) \o SubSeq(d, id + 2, Len(d)),
               result |-> Ok(d[id + 1][1])]
         ELSE [data |-> d, result |-> Err(NotFound)]

\* VecRepository::remove
remove(d, id) ==
    IF id >= Len(d) THEN [data |-> d, result |-> Err(NotFound)]
    ELSE IF d[id + 1] # None
         THEN [data |-> [d EXCEPT ![id + 1] = None], result |-> Ok(d[id + 1][1])]
         ELSE [data |-> d, result |-> Err(NotFound)]

\* update that bounds-checks the id and then replaces the slot's content,
\* whatever it is (`self.data[index].replace(entity).ok_or(NotFound)`)
MutUpdateFillsRemoved(d, id, entity) ==
    IF id >= Len(d) THEN [data |-> d, result |-> Err(NotFound)]
    ELSE [data |-> [d EXCEPT ![id + 1] = Some(entity)],
          result |-> IF d[id + 1] # None THEN Ok(d[id + 1][1]) ELSE Err(NotFound)]

\* VecRepository::update
update(d, id, entity) ==
    IF id >= Len(d) THEN [data |-> d, result |-> Err(NotFound)]
    ELSE IF d[id + 1] # None
         THEN [data |-> [d EXCEPT ![id + 1] = Some(entity)],
               result |-> Ok(d[id + 1][1])]
         ELSE [data |-> d, result |-> Err(NotFound)]

RECURSIVE FilterSome(_)
\* the filter_map of VecRepository::get_all
FilterSome(d) ==
    IF d = <<>> THEN <<>>
    ELSE IF Head(d) # None THEN <<Head(d)[1]>> \o FilterSome(Tail(d))
    ELSE FilterSome(Tail(d))

RECURSIVE TakeWhileSome(_)
TakeWhileSome(d) ==
    IF d = <<>> \/ Head(d) = None THEN <<>>
    ELSE <<Head(d)[1]>> \o TakeWhileSome(Tail(d))

\* get_all that stops at the first removed slot (map_while, not filter_map)
MutGetAllStopsAtHole(d) == Ok(TakeWhileSome(d))

\* VecRepository::get_all
get_all(d) == Ok(FilterSome(d))

\* the id VecRepository::create reserves for the entity it builds
MutNextIdLive(d) == Len(FilterSome(d))
NextId(d) == Len(d)

\* create that hands the factory the id of the first slot
MutCreateFirstId(d, F) ==
    LET entity == F[0]
    IN  [data |-> Append(d, Some(entity)), result |-> Ok(entity)]

\* VecRepository::create; the entity_factory closure is the function F from
\* ids to entities
create(d, F) ==
    LET entity == F[NextId(d)]
    IN  [data |-> Append(d, Some(entity)), result |-> Ok(entity)]

\* ------------------------------------------------ Event channel (pure)
\* publish_event over a channel of capacity one: try_send drops the event
\* when one is already waiting
MutPublishEventBounded(ch, alive, event) ==
    IF alive /\ ch = <<>> THEN Append(ch, event) ELSE ch

\* publish_event that puts the event at the head of the queue
MutPublishEventAtFront(ch, alive, event) ==
    IF alive THEN <<event>> \o ch ELSE ch

\* publish_event: Sender::send enqueues unless the receiver is gone; the
\* error is printed and swallowed.
publish_event(ch, alive, event) == IF alive THEN Append(ch, event) ELSE ch

\* ----------------------------------------------- Domain Service (pure)
\* Each operation maps the repository `d` and the channel `ch` to the new
\* repository, the new channel, the events handed to publish_event and the
\* returned Result.

\* create_person that propagates a failed send to its caller
MutCreatePersonSendFails(d, ch, alive, name, location) ==
    LET F == [id \in 0 .. Len(d) |-> Person(id, name, location)]
        r == create(d, F)
        event == PersonCreated(r.result.val.id, name, location)
    IN  IF alive
        THEN [data |-> r.data, chan |-> Append(ch, event),
              published |-> <<event>>, result |-> Ok(r.result.val)]
        ELSE [data |-> r.data, chan |-> ch,
              published |-> <<event>>, result |-> Err("SendError")]

\* PersonService::create_person
create_person(d, ch, alive, name, location) ==
    LET F == [id \in 0 .. Len(d) |-> Person(id, name, location)]
        r == create(d, F)
        event == PersonCreated(r.result.val.id, name, location)
    IN  [data |-> r.data, chan |-> publish_event(ch, alive, event),
         published |-> <<event>>, result |-> Ok(r.result.val)]

\* move_person that emits the event and returns without updating the
\* repository
MutMovePersonKeepsStore(d, ch, alive, person_id, new_location) ==
    LET cur == get(d, person_id)
    IN  IF ~cur.ok
        THEN [data |-> d, chan |-> ch, published |-> <<>>, result |-> cur]
        ELSE LET updated_person == Person(person_id, cur.val.name, new_location)
                 event == PersonMoved(person_id, cur.val.location, new_location)
             IN  [data |-> d,
                  chan |-> publish_event(ch, alive, event),
                  published |-> <<event>>, result |-> Ok(updated_person)]

\* move_person that builds the updated Person with an empty name
MutMovePersonDropsName(d, ch, alive, person_id, new_location) ==
    LET cur == get(d, person_id)
    IN  IF ~cur.ok
        THEN [data |-> d, chan |-> ch, published |-> <<>>, result |-> cur]
        ELSE LET updated_person == Person(person_id, "", new_location)
                 event == PersonMoved(person_id, cur.val.location, new_location)
             IN  [data |-> update(d, person_id, updated_person).data,
                  chan |-> publish_event(ch, alive, event),
                  published |-> <<event>>, result |-> Ok(updated_person)]

\* move_person that returns early when the person is already at new_location
MutMovePersonSkipsNoOp(d, ch, alive, person_id, new_location) ==
    LET cur == get(d, person_id)
    IN  IF ~cur.ok
        THEN [data |-> d, chan |-> ch, published |-> <<>>, result |-> cur]
        ELSE IF cur.val.location = new_location
        THEN [data |-> d, chan |-> ch, published |-> <<>>, result |-> cur]
        ELSE LET updated_person == Person(person_id, cur.val.name, new_location)
                 event == PersonMoved(person_id, cur.val.location, new_location)
             IN  [data |-> update(d, person_id, updated_person).data,
                  chan |-> publish_event(ch, alive, event),
                  published |-> <<event>>, result |-> Ok(updated_person)]

\* move_person that reads from_location off the updated Person
MutMovePersonFromIsNew(d, ch, alive, person_id, new_location) ==
    LET cur == get(d, person_id)
    IN  IF ~cur.ok
        THEN [data |-> d, chan |-> ch, published |-> <<>>, result |-> cur]
        ELSE LET updated_person == Person(person_id, cur.val.name, new_location)
                 event == PersonMoved(person_id, updated_person.location,
                                      new_location)
             IN  [data |-> update(d, person_id, updated_person).data,
                  chan |-> publish_event(ch, alive, event),
                  published |-> <<event>>, result |-> Ok(updated_person)]

\* move_person that publishes before it looks the person up
MutMovePersonEmitsFirst(d, ch, alive, person_id, new_location) ==
    LET cur == get(d, person_id)
        early == PersonMoved(person_id, new_location, new_location)
    IN  IF ~cur.ok
        THEN [data |-> d, chan |-> publish_event(ch, alive, early),
              published |-> <<early>>, result |-> cur]
        ELSE LET updated_person == Person(person_id, cur.val.name, new_location)
                 event == PersonMoved(person_id, cur.val.location, new_location)
             IN  [data |-> update(d, person_id, updated_person).data,
                  chan |-> publish_event(ch, alive, event),
                  published |-> <<event>>, result |-> Ok(updated_person)]

\* PersonService::move_person
move_person(d, ch, alive, person_id, new_location) ==
    LET cur == get(d, person_id)
    IN  IF ~cur.ok
        THEN [data |-> d, chan |-> ch, published |-> <<>>, result |-> cur]
        ELSE LET old_location == cur.val.location
                 updated_person == Person(person_id, cur.val.name, new_location)
                 u == update(d, person_id, updated_person)
                 event == PersonMoved(person_id, old_location, new_location)
             IN  IF ~u.result.ok
                 THEN [data |-> u.data, chan |-> ch, published |-> <<>>,
                       result |-> u.result]
                 ELSE [data |-> u.data,
                       chan |-> publish_event(ch, alive, event),
                       published |-> <<event>>, result |-> Ok(updated_person)]

\* get_person that reports the lookup as an event
MutGetPersonEmits(d, ch, person_id) ==
    LET r == get(d, person_id)
        event == PersonMoved(person_id, CHOOSE l \in Locations : TRUE,
                             CHOOSE l \in Locations : TRUE)
    IN  [data |-> d, chan |-> Append(ch, event), published |-> <<event>>,
         result |-> r]

\* PersonService::get_person
get_person(d, ch, person_id) ==
    [data |-> d, chan |-> ch, published |-> <<>>, result |-> get(d, person_id)]

\* PersonService::get_all_persons
get_all_persons(d, ch) ==
    [data |-> d, chan |-> ch, published |-> <<>>, result |-> get_all(d)]

\* ------------------------------------ Location Occupancy Projection (pure)
\* The HashMap<Location, Vec<PersonId>> is a function whose domain is the set
\* of keys present in the map.

\* LocationOccupancyProjection::new
EmptyOccupancy == <<>>

\* add_person_to_location that pushes the id only if the list lacks it
MutAddPersonOnce(o, person_id, location) ==
    IF location \in DOMAIN o
    THEN IF \E i \in 1 .. Len(o[location]) : o[location][i] = person_id
         THEN o
         ELSE [o EXCEPT ![location] = Append(@, person_id)]
    ELSE [l \in DOMAIN o \cup {location} |->
            IF l = location THEN <<person_id>> ELSE o[l]]

\* LocationOccupancyProjection::add_person_to_location
add_person_to_location(o, person_id, location) ==
    IF location \in DOMAIN o
    THEN [o EXCEPT ![location] = Append(@, person_id)]
    ELSE [l \in DOMAIN o \cup {location} |->
            IF l = location THEN <<person_id>> ELSE o[l]]

\* remove_person_from_location that drops the whole entry of the location
MutRemoveDropsEntry(o, person_id, location) ==
    [l \in DOMAIN o \ {location} |-> o[l]]

\* remove_person_from_location that leaves the emptied entry in the map
MutRemoveKeepsEmptyEntry(o, person_id, location) ==
    IF location \in DOMAIN o
    THEN [o EXCEPT ![location] = SelectSeq(@, LAMBDA id : id # person_id)]
    ELSE o

\* LocationOccupancyProjection::remove_person_from_location
remove_person_from_location(o, person_id, location) ==
    IF location \in DOMAIN o
    THEN LET people == SelectSeq(o[location], LAMBDA id : id # person_id)
         IN  IF people = <<>>
             THEN [l \in DOMAIN o \ {location} |-> o[l]]
             ELSE [o EXCEPT ![location] = people]
    ELSE o

\* LocationOccupancyProjection::get_people_at_location
get_people_at_location(o, location) ==
    IF location \in DOMAIN o THEN o[location] ELSE <<>>

\* LocationOccupancyProjection::get_occupied_locations; the Vec it returns
\* lists the keys in the map's iteration order, which is unspecified: the
\* model keeps the set of its elements
get_occupied_locations(o) == DOMAIN o

\* LocationOccupancyProjection::get_occupied_location_count
get_occupied_location_count(o) == Cardinality(DOMAIN o)

\* the orders in which `self.occupancy.iter()` can visit the keys of the
\* HashMap: the order is unspecified, so every permutation is possible
IterationOrders(o) ==
    {f \in [1 .. Cardinality(DOMAIN o) -> DOMAIN o] :
        \A i, j \in DOMAIN f : f[i] = f[j] => i = j}

\* Iterator::max_by_key(|&(_, count)| count) over the (location, count) pairs
\* in visiting order: None for no pair, else the last pair of maximal count
max_by_key(pairs) ==
    IF pairs = <<>>
    THEN None
    ELSE LET best[i \in 1 .. Len(pairs)] ==
                 IF i = 1 THEN pairs[1]
                 ELSE IF pairs[i][2] >= best[i - 1][2] THEN pairs[i]
                 ELSE best[i - 1]
         IN  Some(best[Len(pairs)])

\* get_most_crowded_location that returns the first entry the iterator visits
MutMostCrowdedFirstEntry(o) ==
    {IF order = <<>> THEN None ELSE Some(<<order[1], Len(o[order[1]])>>) :
        order \in IterationOrders(o)}

\* LocationOccupancyProjection::get_most_crowded_location: the set of values
\* the call can return, one per visiting order of the map
get_most_crowded_location(o) ==
    {max_by_key([i \in DOMAIN order |-> <<order[i], Len(o[order[i]])>>]) :
        order \in IterationOrders(o)}

\* apply that does not take the person off from_location
MutApplyMoveOnlyAdds(o, event) ==
    IF event.type = "PersonCreated"
    THEN add_person_to_location(o, event.person_id, event.location)
    ELSE IF event.type = "PersonMoved"
    THEN add_person_to_location(o, event.person_id, event.to_location)
    ELSE o

\* apply that adds the person to to_location before it removes it from
\* from_location
MutApplyAddsBeforeRemove(o, event) ==
    IF event.type = "PersonCreated"
    THEN add_person_to_location(o, event.person_id, event.location)
    ELSE IF event.type = "PersonMoved"
    THEN remove_person_from_location(
             add_person_to_location(o, event.person_id, event.to_location),
             event.person_id, event.from_location)
    ELSE o

\* <LocationOccupancyProjection as Projection>::apply
apply(o, event) ==
    IF event.type = "PersonCreated"
    THEN add_person_to_location(o, event.person_id, event.location)
    ELSE IF event.type = "PersonMoved"
    THEN add_person_to_location(
             remove_person_from_location(o, event.person_id, event.from_location),
             event.person_id, event.to_location)
    ELSE o

RECURSIVE ApplyAll(_, _)
\* `for event in &historical_events { projection.apply(event); }`
ApplyAll(o, events) ==
    IF events = <<>> THEN o ELSE ApplyAll(apply(o, Head(events)), Tail(events))

\* ------------------------------------------------------ Event Log (pure)
\* An EventStore value: its events, the Senders of its subscriber feeds (each
\* named by the feed it writes to) and the channel its receiver reads.

\* EventStore::new(receiver)
EventStore_new(receiver) ==
    [events |-> <<>>, receiver |-> receiver, subscribers |-> <<>>]

\* EventStore::subscribe: pushes the Sender of the new feed s
subscribe(st, s) == [st EXCEPT !.subscribers = Append(@, s)]

\* EventStore::get_all_events
get_all_events(st) == st.events

\* EventStore::event_count
event_count(st) == Len(st.events)

RECURSIVE MutFanOutSkipsAfterRemoval(_, _, _, _)
\* a fan-out that removes a failed Sender while indexing through the Vec, so
\* that the Sender after a removed one is passed over for this event
MutFanOutSkipsAfterRemoval(subs, fd, alive, event) ==
    IF subs = <<>> THEN [subscribers |-> <<>>, feed |-> fd]
    ELSE LET s == Head(subs)
         IN  IF alive[s]
             THEN LET r == MutFanOutSkipsAfterRemoval(
                               Tail(subs), [fd EXCEPT ![s] = Append(@, event)],
                               alive, event)
                  IN  [subscribers |-> <<s>> \o r.subscribers, feed |-> r.feed]
             ELSE IF Len(subs) = 1 THEN [subscribers |-> <<>>, feed |-> fd]
             ELSE LET r == MutFanOutSkipsAfterRemoval(
                               Tail(Tail(subs)), fd, alive, event)
                  IN  [subscribers |-> <<subs[2]>> \o r.subscribers,
                       feed |-> r.feed]

RECURSIVE FanOut(_, _, _, _)
\* `self.subscribers.retain(|sender| sender.send(event.clone()).is_ok())`:
\* in Vec order, send on each feed whose Receiver exists and keep its Sender;
\* drop the Senders whose send failed
FanOut(subs, fd, alive, event) ==
    IF subs = <<>> THEN [subscribers |-> <<>>, feed |-> fd]
    ELSE LET s == Head(subs)
         IN  IF alive[s]
             THEN LET r == FanOut(Tail(subs), [fd EXCEPT ![s] = Append(@, event)],
                                  alive, event)
                  IN  [subscribers |-> <<s>> \o r.subscribers, feed |-> r.feed]
             ELSE FanOut(Tail(subs), fd, alive, event)

\* an iteration that inserts the event at the front of the Vec of events
MutProcessEventInsertsFirst(st, fd, alive, event) ==
    LET r == FanOut(st.subscribers, fd, alive, event)
    IN  [store |-> [st EXCEPT !.events = <<event>> \o @,
                              !.subscribers = r.subscribers],
         feed |-> r.feed]

\* one iteration of the loop of EventStore::start_processing on the store st
\* that received `event`: the new store and the new feeds
process_event(st, fd, alive, event) ==
    LET r == FanOut(st.subscribers, fd, alive, event)
    IN  [store |-> [st EXCEPT !.events = Append(@, event),
                              !.subscribers = r.subscribers],
         feed |-> r.feed]

\* ------------------------------------------------------------ variables
VARIABLES
    \* PersonService.repository: the Vec<Option<Person>> of the VecRepository
    data,
    \* the ingestion channel behind PersonService.event_sender: events sent
    \* and not yet received
    chan,
    \* whether the Receiver of the ingestion channel still exists
    rxAlive,
    \* SpecSvc: "repo" while the repository is driven directly, "service"
    \* once PersonService::new(repo, sender) has taken it
    phase,
    \* the operation executed last, its arguments and its returned Result
    last,
    \* history: number of add / create calls made on the repository
    issued,
    \* history: the ids whose entity a remove call took out of the repository
    removedIds,
    \* history: for each id an add / create returned and no remove has taken
    \* since, the entity most recently stored under it
    stored,
    \* history: number of create_person / move_person calls that returned Ok
    okCmds,
    \* history: every event handed to publish_event, in call order
    emitted,
    \* number of direct repository operations / of service operations so far
    nRepo, nCmd,
    \* SpecProj: LocationOccupancyProjection.occupancy of the stand-alone
    \* projection
    occupancy,
    \* SpecProj history: the events applied to the stand-alone projection
    fed,
    \* Spec: "new" inside CoreApi::new(), "ready" once it has returned
    apiPc,
    \* Spec: the thread spawned by create_event_store: "spawned" before it has
    \* taken the EventStore out of the shared handle, "running" while the
    \* processing loop runs
    storePc,
    \* Spec: the two EventStore values: "orig", built by create_event_store
    \* around the ingestion receiver, and "dummy", the replacement the spawned
    \* thread leaves in the shared handle
    store,
    \* Spec: which EventStore the Arc<Mutex<EventStore>> handle holds
    handle,
    \* Spec, per feed: every event sent on it so far, how many of them its
    \* Receiver has taken, and whether its Receiver still exists
    feed, rpos, feedAlive,
    \* Spec, per feed: where its owner is in register_projection
    regPc,
    \* Spec, per feed: the historical_events snapshot of its registration
    hist,
    \* Spec, per feed: the occupancy map of its projection
    proj,
    \* Spec history, per feed: the events its projection has applied
    applied,
    \* Spec history, per feed: how many events the processing loop had
    \* ingested when subscribe() returned the feed
    subAt,
    \* Spec history, per feed: the calls register_projection and the
    \* projection's thread have made for it, in order
    calls,
    \* Spec, per feed: whether a reader holds the Mutex of its projection
    held,
    \* SpecLock: the caller that holds the Mutex of the PersonService, or
    \* Unlocked
    svcLock,
    \* SpecLock, per caller: where it is in its PersonApi call, the call and
    \* the locals of the service operation it runs
    callers,
    \* SpecLock history: the event of every mutation of the repository, in
    \* the order the mutations were made
    committed,
    \* SpecLua: the commands in the channel of command_tx and command_rx that
    \* the LuaEngine has not received yet
    command_rx,
    \* SpecLua: whether a Sender of the command channel still exists
    command_tx,
    \* SpecLua: where the LuaEngine is: in the loop of run(), returned from
    \* it, or dropped together with its Receiver
    engine,
    \* SpecLua: the ids in the LuaEngine's callbacks map
    callbacks,
    \* SpecLua, per command sent: the command, what became of it, the
    \* responses sent on its response channel, whether its response_tx
    \* still exists and where its sender is
    requests

svcVars == <<nRepo, nCmd, data, chan, rxAlive, phase, last, issued, removedIds,
             stored, okCmds, emitted>>

unitVars == <<occupancy, fed>>

coreVars == <<apiPc, storePc, store, handle, feed, rpos, feedAlive, regPc, hist,
              proj, applied, subAt, calls, held>>

lockVars == <<svcLock, callers, committed>>

luaVars == <<command_rx, command_tx, engine, callbacks, requests>>

vars == <<svcVars, unitVars, coreVars, lockVars, luaVars>>

\* the feeds: the one of the LocationOccupancyProjection CoreApi::new
\* registers, and the one of a further register_projection call
CoreProjection == "occupancy"
Subs == {CoreProjection, "extra"}

\* a call made for a projection: by register_projection on the EventStore,
\* or by the projection's thread on the projection
Call(name) == [call |-> name]
ApplyCall(event) == [call |-> "apply", event |-> event]

\* the calls the projection's thread makes on the projection while it holds
\* the lock for the rebuild from the snapshot h: initialize(), apply(e) for
\* each e of h in order, after_rebuild()
RebuildCalls(h) ==
    <<Call("initialize")>> \o [i \in 1 .. Len(h) |-> ApplyCall(h[i])]
        \o <<Call("after_rebuild")>>

\* the concurrent callers of PersonApi in SpecLock
Callers == {"t1", "t2"}

\* the Mutex of the PersonService when no caller holds it
Unlocked == "unlocked"

\* a caller that is not inside a PersonApi call
Idle == [pc |-> "idle", op |-> "none", id |-> 0, location |-> None,
         cur |-> None, result |-> None]

\* the state of SpecLock's variables in the other specifications
NoLock ==
    /\ svcLock = Unlocked
    /\ callers = [c \in Callers |-> Idle]
    /\ committed = <<>>

\* the LuaEngine as LuaEngine::new leaves it, before any command is sent:
\* the state of SpecLua's variables in the other specifications
NoLua ==
    /\ command_rx = <<>>
    /\ command_tx = TRUE
    /\ engine = "running"
    /\ callbacks = {}
    /\ requests = <<>>

\* the state of the core's variables in the specifications without the core
NoCore ==
    /\ apiPc = "none"
    /\ storePc = "none"
    /\ store = [orig |-> EventStore_new("ingest"), dummy |-> EventStore_new("closed")]
    /\ handle = "orig"
    /\ feed = [s \in Subs |-> <<>>]
    /\ rpos = [s \in Subs |-> 0]
    /\ feedAlive = [s \in Subs |-> FALSE]
    /\ regPc = [s \in Subs |-> "idle"]
    /\ hist = [s \in Subs |-> <<>>]
    /\ proj = [s \in Subs |-> EmptyOccupancy]
    /\ applied = [s \in Subs |-> <<>>]
    /\ subAt = [s \in Subs |-> 0]
    /\ calls = [s \in Subs |-> <<>>]
    /\ held = [s \in Subs |-> FALSE]

\* ---------------------------------------------- SpecSvc: initial state
\* VecRepository::new, mpsc::channel()
InitSvc ==
    /\ data = <<>>
    /\ chan = <<>>
    /\ rxAlive = TRUE
    /\ phase = "repo"
    /\ last = [op |-> "none"]
    /\ issued = 0
    /\ removedIds = {}
    /\ stored = <<>>
    /\ okCmds = 0
    /\ emitted = <<>>
    /\ nRepo = 0
    /\ nCmd = 0
    /\ occupancy = EmptyOccupancy
    /\ fed = <<>>
    /\ NoCore
    /\ NoLock
    /\ NoLua

\* ids a caller passes to get / remove / update / move: every issued id and
\* one that was never issued
CallerIds == 0 .. Len(data)

\* the entity a caller hands to add, and whose name and location it gives to
\* create, when it drives the repository directly
\* (it embeds the id the add will assign, as the Person with PersonId(0)
\* added first in test_create_person_after_removing_one)
AddedEntity == Person(Len(data), "Alice", [x |-> 10, y |-> 20])

\* the entity a caller hands to update(id, _)
UpdatedEntity(id) == Person(id, "Bob", [x |-> 10, y |-> 20])

\* the entities stored under their ids after the operation opname(args) has
\* returned result, given those stored before it
StoredAfter(st, opname, args, result) ==
    LET Put(k, v) == [i \in DOMAIN st \cup {k} |-> IF i = k THEN v ELSE st[i]]
    IN  IF ~result.ok THEN st
        ELSE IF opname = "add" THEN Put(result.val, args[1])
        ELSE IF opname \in {"create", "create_person"}
             THEN Put(result.val.id, result.val)
        ELSE IF opname = "update" /\ args[1] \in DOMAIN st
             THEN Put(args[1], args[2])
        ELSE IF opname = "move_person" /\ args[1] \in DOMAIN st
             THEN Put(args[1], result.val)
        ELSE IF opname = "remove"
             THEN [i \in DOMAIN st \ {args[1]} |-> st[i]]
        ELSE st

\* the names given to create_person
CreateNames == {"Bob"}

\* ------------------------------ direct repository operations (SpecSvc)
RepoStep(r, opname, args) ==
    /\ phase = "repo"
    /\ nRepo < MaxRepoOps
    /\ data' = r.data
    /\ last' = [op |-> opname, args |-> args, result |-> r.result, rx |-> rxAlive]
    /\ issued' = issued + (IF opname \in {"add", "create"} THEN 1 ELSE 0)
    /\ removedIds' = IF opname = "remove" /\ r.result.ok
                      THEN removedIds \cup {args[1]} ELSE removedIds
    /\ stored' = StoredAfter(stored, opname, args, r.result)
    /\ nRepo' = nRepo + 1
    /\ UNCHANGED <<chan, rxAlive, phase, okCmds, emitted, nCmd, unitVars, coreVars, lockVars, luaVars>>

RepoAdd == RepoStep(add(data, AddedEntity), "add", <<AddedEntity>>)

RepoCreate ==
    LET e == AddedEntity
        F == [id \in 0 .. Len(data) |-> Person(id, e.name, e.location)]
    IN  RepoStep(create(data, F), "create", <<e.name, e.location>>)

RepoRemove == \E id \in CallerIds : RepoStep(remove(data, id), "remove", <<id>>)

RepoUpdate ==
    \E id \in CallerIds :
        RepoStep(update(data, id, UpdatedEntity(id)), "update",
                 <<id, UpdatedEntity(id)>>)

RepoGet ==
    \E id \in CallerIds :
        RepoStep([data |-> data, result |-> get(data, id)], "get", <<id>>)

RepoGetAll == RepoStep([data |-> data, result |-> get_all(data)], "get_all", <<>>)

\* PersonService::new(repo, sender)
NewService ==
    /\ phase = "repo"
    /\ phase' = "service"
    /\ UNCHANGED <<data, chan, rxAlive, last, issued, removedIds, stored, okCmds,
                   emitted, nRepo, nCmd, unitVars, coreVars, lockVars, luaVars>>

\* ------------------------------------------------- service operations
\* the effect of one PersonService call whose outcome is r
ServiceStep(r, opname, args) ==
    /\ nCmd < MaxCmds
    /\ data' = r.data
    /\ chan' = r.chan
    /\ last' = [op |-> opname, args |-> args, result |-> r.result, rx |-> rxAlive]
    /\ emitted' = emitted \o r.published
    /\ okCmds' = okCmds + (IF opname \in {"create_person", "move_person"} /\ r.result.ok
                           THEN 1 ELSE 0)
    /\ issued' = issued + (IF opname = "create_person" THEN 1 ELSE 0)
    /\ stored' = StoredAfter(stored, opname, args, r.result)
    /\ nCmd' = nCmd + 1

CreatePerson ==
    \E n \in CreateNames, l \in Locations :
        ServiceStep(create_person(data, chan, rxAlive, n, l), "create_person", <<n, l>>)

MovePerson ==
    \E id \in CallerIds, l \in Locations :
        ServiceStep(move_person(data, chan, rxAlive, id, l), "move_person", <<id, l>>)

GetPerson ==
    \E id \in CallerIds :
        ServiceStep(get_person(data, chan, id), "get_person", <<id>>)

GetAllPersons == ServiceStep(get_all_persons(data, chan), "get_all_persons", <<>>)

SvcFrame ==
    phase = "service" /\ UNCHANGED <<rxAlive, phase, removedIds, nRepo, unitVars, coreVars, lockVars, luaVars>>

SvcCreatePerson == SvcFrame /\ CreatePerson
SvcMovePerson == SvcFrame /\ MovePerson
SvcGetPerson == SvcFrame /\ GetPerson
SvcGetAllPersons == SvcFrame /\ GetAllPersons

\* the holder of the ingestion Receiver drops it (the consumer is gone);
\* queued events are dropped with it
DropReceiver ==
    /\ phase = "service"
    /\ rxAlive
    /\ rxAlive' = FALSE
    /\ chan' = <<>>
    /\ UNCHANGED <<data, phase, last, issued, removedIds, stored, okCmds, emitted,
                   nRepo, nCmd, unitVars, coreVars, lockVars, luaVars>>

NextSvc ==
    \/ RepoAdd \/ RepoCreate \/ RepoRemove \/ RepoUpdate \/ RepoGet \/ RepoGetAll
    \/ NewService
    \/ SvcCreatePerson \/ SvcMovePerson \/ SvcGetPerson \/ SvcGetAllPersons
    \/ DropReceiver

SpecSvc == InitSvc /\ [][NextSvc]_vars

\* ------------------------------------- SpecProj: stand-alone projection
\* LocationOccupancyProjection::new(); nothing else of the core exists
InitProj ==
    /\ occupancy = EmptyOccupancy
    /\ fed = <<>>
    /\ data = <<>>
    /\ chan = <<>>
    /\ rxAlive = TRUE
    /\ phase = "projection"
    /\ last = [op |-> "none"]
    /\ issued = 0
    /\ removedIds = {}
    /\ stored = <<>>
    /\ okCmds = 0
    /\ emitted = <<>>
    /\ nRepo = 0
    /\ nCmd = 0
    /\ NoCore
    /\ NoLock
    /\ NoLua

\* the events a caller applies: any PersonCreated / PersonMoved over the
\* person ids 0 .. MaxPid, well-formed or not
UnitEvents ==
    {PersonCreated(p, "Alice", l) : p \in 0 .. MaxPid, l \in Locations}
    \cup
    {PersonMoved(p[1], p[2], p[3]) : p \in (0 .. MaxPid) \X Locations \X Locations}

\* projection.apply(&event)
ApplyCreated ==
    \E e \in UnitEvents :
        /\ e.type = "PersonCreated"
        /\ Len(fed) < MaxFeed
        /\ occupancy' = apply(occupancy, e)
        /\ fed' = Append(fed, e)
        /\ UNCHANGED <<svcVars, coreVars, lockVars, luaVars>>

ApplyMoved ==
    \E e \in UnitEvents :
        /\ e.type = "PersonMoved"
        /\ Len(fed) < MaxFeed
        /\ occupancy' = apply(occupancy, e)
        /\ fed' = Append(fed, e)
        /\ UNCHANGED <<svcVars, coreVars, lockVars, luaVars>>

NextProj == ApplyCreated \/ ApplyMoved

SpecProj == InitProj /\ [][NextProj]_vars

\* ------------------- SpecCrowd: a projection filled up and then queried
\* as test_most_crowded_location does: persons 1, 2, .. are created one after
\* the other, each at one of three locations, and the most crowded location
\* is asked for
CrowdLocations == Locations \cup {[x |-> 50, y |-> 60]}

\* LocationOccupancyProjection::new()
InitCrowd ==
    /\ occupancy = EmptyOccupancy
    /\ fed = <<>>
    /\ data = <<>>
    /\ chan = <<>>
    /\ rxAlive = TRUE
    /\ phase = "crowd"
    /\ last = [op |-> "none"]
    /\ issued = 0
    /\ removedIds = {}
    /\ stored = <<>>
    /\ okCmds = 0
    /\ emitted = <<>>
    /\ nRepo = 0
    /\ nCmd = 0
    /\ NoCore
    /\ NoLock
    /\ NoLua

\* the test helper create_person_created_event(id, x, y)
create_person_created_event(id, location) == PersonCreated(id, "Person", location)

CrowdFrame ==
    UNCHANGED <<data, chan, rxAlive, phase, issued, removedIds, stored,
                okCmds, emitted, nRepo, nCmd, coreVars, lockVars, luaVars>>

\* projection.apply(&create_person_created_event(id, x, y))
CrowdCreated ==
    \E l \in CrowdLocations :
        LET e == create_person_created_event(Len(fed) + 1, l)
        IN  /\ Len(fed) < MaxCrowd
            /\ occupancy' = apply(occupancy, e)
            /\ fed' = Append(fed, e)
            /\ last' = [op |-> "apply"]
            /\ CrowdFrame

\* projection.get_most_crowded_location()
MostCrowded ==
    /\ \E r \in get_most_crowded_location(occupancy) :
          last' = [op |-> "get_most_crowded_location", result |-> r]
    /\ UNCHANGED unitVars
    /\ CrowdFrame

NextCrowd == CrowdCreated \/ MostCrowded

SpecCrowd == InitCrowd /\ [][NextCrowd]_vars

\* ------------------------------------------------- Spec: the whole core
\* The state when create_event_store() has returned inside CoreApi::new():
\* the ingestion channel exists, the shared handle holds the EventStore built
\* around its receiver, the thread that will take the store out of the handle
\* is spawned but has not run, and the repository and the service are new.
Init ==
    /\ data = <<>>
    /\ chan = <<>>
    /\ rxAlive = TRUE
    /\ phase = "core"
    /\ last = [op |-> "none"]
    /\ issued = 0
    /\ removedIds = {}
    /\ stored = <<>>
    /\ okCmds = 0
    /\ emitted = <<>>
    /\ nRepo = 0
    /\ nCmd = 0
    /\ occupancy = EmptyOccupancy
    /\ fed = <<>>
    /\ apiPc = "new"
    /\ storePc = "spawned"
    /\ store = [orig |-> EventStore_new("ingest"), dummy |-> EventStore_new("closed")]
    /\ handle = "orig"
    /\ feed = [s \in Subs |-> <<>>]
    /\ rpos = [s \in Subs |-> 0]
    /\ feedAlive = [s \in Subs |-> FALSE]
    /\ regPc = [s \in Subs |-> "idle"]
    /\ hist = [s \in Subs |-> <<>>]
    /\ proj = [s \in Subs |-> EmptyOccupancy]
    /\ applied = [s \in Subs |-> <<>>]
    /\ subAt = [s \in Subs |-> 0]
    /\ calls = [s \in Subs |-> <<>>]
    /\ held = [s \in Subs |-> FALSE]
    /\ NoLock
    /\ NoLua

\* the thread spawned by create_event_store: under the handle's lock,
\* mem::replace puts a new EventStore around the receiver of a throw-away
\* channel into the handle and takes the original out; start_processing then
\* moves the original into the processing thread
SwapStore ==
    /\ storePc = "spawned"
    /\ handle' = "dummy"
    /\ storePc' = "running"
    /\ UNCHANGED <<svcVars, unitVars, apiPc, store, feed, rpos, feedAlive, regPc,
                   hist, proj, applied, subAt, calls, held, lockVars, luaVars>>

\* one iteration of the processing loop: recv from the ingestion channel,
\* push to the events of the store the thread owns, fan out
ProcessEvent ==
    /\ storePc = "running"
    /\ store.orig.receiver = "ingest"
    /\ chan # <<>>
    /\ LET r == process_event(store.orig, feed, feedAlive, Head(chan))
       IN  /\ store' = [store EXCEPT !.orig = r.store]
           /\ feed' = r.feed
    /\ chan' = Tail(chan)
    /\ UNCHANGED <<data, rxAlive, phase, last, issued, removedIds, stored, okCmds,
                   emitted, nRepo, nCmd, unitVars, apiPc, storePc, handle, rpos, feedAlive,
                   regPc, hist, proj, applied, subAt, calls, held, lockVars, luaVars>>

\* register_projection, `store.subscribe()` under the handle's lock.  CoreApi::new
\* registers its projection before it returns; a further registration may come
\* at any time.
Subscribe(s) ==
    /\ regPc[s] = "idle"
    /\ s = CoreProjection => apiPc = "new"
    /\ store' = [store EXCEPT ![handle] = subscribe(@, s)]
    /\ feedAlive' = [feedAlive EXCEPT ![s] = TRUE]
    /\ subAt' = [subAt EXCEPT ![s] = Len(store.orig.events)]
    /\ regPc' = [regPc EXCEPT ![s] = "subscribed"]
    /\ calls' = [calls EXCEPT ![s] = Append(@, Call("subscribe"))]
    /\ UNCHANGED <<svcVars, unitVars, apiPc, storePc, handle, feed, rpos, hist,
                   proj, applied, held, lockVars, luaVars>>

\* register_projection, `store.get_all_events()` under the handle's lock, and
\* the spawn of the projection's thread
Snapshot(s) ==
    /\ regPc[s] = "subscribed"
    /\ hist' = [hist EXCEPT ![s] = get_all_events(store[handle])]
    /\ regPc' = [regPc EXCEPT ![s] = "spawned"]
    /\ calls' = [calls EXCEPT ![s] = Append(@, Call("get_all_events"))]
    /\ UNCHANGED <<svcVars, unitVars, apiPc, storePc, store, handle, feed, rpos,
                   feedAlive, proj, applied, subAt, held, lockVars, luaVars>>

\* the projection's thread, under the projection's lock: initialize(), apply
\* every historical event in snapshot order, after_rebuild(), drop the lock
Rebuild(s) ==
    /\ regPc[s] = "spawned"
    /\ ~held[s]
    /\ proj' = [proj EXCEPT ![s] = ApplyAll(@, hist[s])]
    /\ applied' = [applied EXCEPT ![s] = @ \o hist[s]]
    /\ regPc' = [regPc EXCEPT ![s] = "live"]
    /\ calls' = [calls EXCEPT ![s] = @ \o RebuildCalls(hist[s])]
    /\ UNCHANGED <<svcVars, unitVars, apiPc, storePc, store, handle, feed, rpos,
                   feedAlive, hist, subAt, held, lockVars, luaVars>>

\* a projection thread that enters its live loop before the rebuild
MutLiveApplyBeforeRebuild(s) ==
    /\ regPc[s] \in {"spawned", "live"}
    /\ rpos[s] < Len(feed[s])
    /\ ~held[s]
    /\ LET event == feed[s][rpos[s] + 1]
       IN  /\ proj' = [proj EXCEPT ![s] = apply(@, event)]
           /\ applied' = [applied EXCEPT ![s] = Append(@, event)]
    /\ rpos' = [rpos EXCEPT ![s] = @ + 1]
    /\ calls' = [calls EXCEPT ![s] = Append(@, ApplyCall(feed[s][rpos[s] + 1]))]
    /\ UNCHANGED <<svcVars, unitVars, apiPc, storePc, store, handle, feed,
                   feedAlive, regPc, hist, subAt, held, lockVars, luaVars>>

\* a live loop that needs one lock shared by all projections
MutLiveApplySharedLock(s) ==
    /\ regPc[s] = "live"
    /\ rpos[s] < Len(feed[s])
    /\ \A t \in Subs : ~held[t]
    /\ LET event == feed[s][rpos[s] + 1]
       IN  /\ proj' = [proj EXCEPT ![s] = apply(@, event)]
           /\ applied' = [applied EXCEPT ![s] = Append(@, event)]
    /\ rpos' = [rpos EXCEPT ![s] = @ + 1]
    /\ calls' = [calls EXCEPT ![s] = Append(@, ApplyCall(feed[s][rpos[s] + 1]))]
    /\ UNCHANGED <<svcVars, unitVars, apiPc, storePc, store, handle, feed,
                   feedAlive, regPc, hist, subAt, held, lockVars, luaVars>>

\* the projection's thread, one iteration of `while let Ok(event) =
\* receiver.recv()`: take the next event of the feed, lock, apply
LiveApply(s) ==
    /\ regPc[s] = "live"
    /\ rpos[s] < Len(feed[s])
    /\ ~held[s]
    /\ LET event == feed[s][rpos[s] + 1]
       IN  /\ proj' = [proj EXCEPT ![s] = apply(@, event)]
           /\ applied' = [applied EXCEPT ![s] = Append(@, event)]
    /\ rpos' = [rpos EXCEPT ![s] = @ + 1]
    /\ calls' = [calls EXCEPT ![s] = Append(@, ApplyCall(feed[s][rpos[s] + 1]))]
    /\ UNCHANGED <<svcVars, unitVars, apiPc, storePc, store, handle, feed,
                   feedAlive, regPc, hist, subAt, held, lockVars, luaVars>>

\* the consumer of a further feed goes away: its Receiver is dropped
DropFeed(s) ==
    /\ s # CoreProjection
    /\ regPc[s] = "live"
    /\ feedAlive' = [feedAlive EXCEPT ![s] = FALSE]
    /\ regPc' = [regPc EXCEPT ![s] = "gone"]
    /\ UNCHANGED <<svcVars, unitVars, apiPc, storePc, store, handle, feed, rpos,
                   hist, proj, applied, subAt, calls, held, lockVars, luaVars>>

\* CoreApi::new returns, after register_projection and the 50 ms sleep
ApiReady ==
    /\ apiPc = "new"
    /\ regPc[CoreProjection] \notin {"idle", "subscribed"}
    /\ apiPc' = "ready"
    /\ UNCHANGED <<svcVars, unitVars, storePc, store, handle, feed, rpos, feedAlive,
                   regPc, hist, proj, applied, subAt, calls, held, lockVars, luaVars>>

\* PersonApi: each call runs one service operation under the service lock
ApiFrame ==
    /\ apiPc = "ready"
    /\ UNCHANGED <<rxAlive, phase, removedIds, nRepo, unitVars, coreVars, lockVars, luaVars>>

ApiCreate == ApiFrame /\ CreatePerson
ApiMoveTo == ApiFrame /\ MovePerson
ApiGet == ApiFrame /\ GetPerson
ApiGetAll == ApiFrame /\ GetAllPersons

Next ==
    \/ SwapStore
    \/ ProcessEvent
    \/ \E s \in Subs : Subscribe(s)
    \/ \E s \in Subs : Snapshot(s)
    \/ \E s \in Subs : Rebuild(s)
    \/ \E s \in Subs : LiveApply(s)
    \/ \E s \in Subs : DropFeed(s)
    \/ ApiReady
    \/ ApiCreate \/ ApiMoveTo \/ ApiGet \/ ApiGetAll

Spec == Init /\ [][Next]_vars

\* ------------------------- SpecLive: the core with readers and shutdown
\* The core as in Spec, with the readers of the projections' state, the drop
\* of the CoreApi and the end of the loops.

\* a recv() that reports the disconnection before the queued messages
MutRecvClosedFirst(queue, senderAlive) ==
    IF ~senderAlive THEN "closed"
    ELSE IF queue # <<>> THEN "event"
    ELSE "blocked"

\* Receiver::recv on a channel that holds `queue`: the next message if there
\* is one; else Err once every Sender is dropped; else it blocks
recv(queue, senderAlive) ==
    IF queue # <<>> THEN "event"
    ELSE IF senderAlive THEN "blocked"
    ELSE "closed"

\* the Sender of the ingestion channel lives in the PersonService, which
\* lives in the CoreApi
ProducerAlive == apiPc # "dropped"

\* the replacement EventStore lives as long as a clone of the handle does:
\* in the CoreApi, in the thread spawned by create_event_store (which ends
\* when the processing thread has ended), or in a ProjectionManager whose
\* register_projection is under way
DummyAlive ==
    \/ apiPc # "dropped"
    \/ storePc # "stopped"
    \/ \E s \in Subs : regPc[s] = "subscribed"

\* whether a Sender of feed s exists: in the subscribers of the EventStore
\* the processing thread owns until it ends, or in those of the replacement
SenderAlive(s) ==
    \/ /\ \E i \in 1 .. Len(store.orig.subscribers) : store.orig.subscribers[i] = s
       /\ storePc # "stopped"
    \/ /\ \E i \in 1 .. Len(store.dummy.subscribers) : store.dummy.subscribers[i] = s
       /\ DummyAlive

\* what the Receiver of feed s has not taken yet
Unread(s) == SubSeq(feed[s], rpos[s] + 1, Len(feed[s]))

\* LocationApi (or the holder of the Arc register_projection returned)
\* locks the projection's Mutex for a query, and does not give it back
ReaderLock(s) ==
    /\ regPc[s] \notin {"idle", "subscribed"}
    /\ s = CoreProjection => apiPc = "ready"
    /\ ~held[s]
    /\ held' = [held EXCEPT ![s] = TRUE]
    /\ UNCHANGED <<svcVars, unitVars, apiPc, storePc, store, handle, feed, rpos,
                   feedAlive, regPc, hist, proj, applied, subAt, calls, lockVars, luaVars>>

\* the CoreApi is dropped, and with it the PersonService and its Sender
DropApi ==
    /\ apiPc = "ready"
    /\ ~held[CoreProjection]
    /\ apiPc' = "dropped"
    /\ UNCHANGED <<svcVars, unitVars, storePc, store, handle, feed, rpos, feedAlive,
                   regPc, hist, proj, applied, subAt, calls, held, lockVars, luaVars>>

\* start_processing: `self.receiver.recv()` returns Err, the loop and the
\* thread end and the EventStore the thread owns is dropped
StopProcessing ==
    /\ storePc = "running"
    /\ recv(chan, ProducerAlive) = "closed"
    /\ storePc' = "stopped"
    /\ UNCHANGED <<svcVars, unitVars, apiPc, store, handle, feed, rpos, feedAlive,
                   regPc, hist, proj, applied, subAt, calls, held, lockVars, luaVars>>

\* the projection's thread: `receiver.recv()` returns Err and the live loop
\* ends
StopLive(s) ==
    /\ regPc[s] = "live"
    /\ recv(Unread(s), SenderAlive(s)) = "closed"
    /\ regPc' = [regPc EXCEPT ![s] = "stopped"]
    /\ UNCHANGED <<svcVars, unitVars, apiPc, storePc, store, handle, feed, rpos,
                   feedAlive, hist, proj, applied, subAt, calls, held, lockVars, luaVars>>

\* a registration needs a clone of the handle
LiveSubscribe(s) == DummyAlive /\ Subscribe(s)

\* the commands of SpecLive
LiveCreate == nCmd < MaxLiveCmds /\ ApiCreate
LiveMoveTo == nCmd < MaxLiveCmds /\ ApiMoveTo

NextLive ==
    \/ SwapStore
    \/ ProcessEvent
    \/ \E s \in Subs : LiveSubscribe(s)
    \/ \E s \in Subs : Snapshot(s)
    \/ \E s \in Subs : Rebuild(s)
    \/ \E s \in Subs : LiveApply(s)
    \/ \E s \in Subs : DropFeed(s)
    \/ ApiReady
    \/ LiveCreate \/ LiveMoveTo
    \/ DropApi
    \/ StopProcessing
    \/ \E s \in Subs : StopLive(s)

\* every thread is scheduled again and again
FairLive ==
    /\ WF_vars(SwapStore)
    /\ WF_vars(ProcessEvent)
    /\ WF_vars(StopProcessing)
    /\ \A s \in Subs :
          /\ WF_vars(Snapshot(s))
          /\ WF_vars(Rebuild(s))
          /\ WF_vars(LiveApply(s))
          /\ WF_vars(StopLive(s))

SpecLive == Init /\ [][NextLive]_vars /\ FairLive

\* SpecStall: the core while the CoreApi is in use and persons are created,
\* with readers that stall a projection by keeping the lock of its state
NextStall ==
    \/ SwapStore
    \/ ProcessEvent
    \/ \E s \in Subs : LiveSubscribe(s)
    \/ \E s \in Subs : Snapshot(s)
    \/ \E s \in Subs : Rebuild(s)
    \/ \E s \in Subs : LiveApply(s)
    \/ ApiReady
    \/ LiveCreate
    \/ \E s \in Subs : ReaderLock(s)

FairStall ==
    /\ WF_vars(SwapStore)
    /\ WF_vars(ProcessEvent)
    /\ \A s \in Subs :
          /\ WF_vars(Snapshot(s))
          /\ WF_vars(Rebuild(s))
          /\ WF_vars(LiveApply(s))

SpecStall == Init /\ [][NextStall]_vars /\ FairStall

\* ------------------------------------- SpecLock: callers of the PersonApi
\* Several threads call one PersonApi. Each call is `self.service.lock()
\* .unwrap().op(..)`: it takes the Mutex of the PersonService, runs the
\* operation statement by statement, and gives the Mutex back when the guard
\* is dropped at the end of the call.

\* new service and repository; the callers are outside the PersonApi
InitLock ==
    /\ data = <<>>
    /\ chan = <<>>
    /\ rxAlive = TRUE
    /\ phase = "service"
    /\ last = [op |-> "none"]
    /\ issued = 0
    /\ removedIds = {}
    /\ stored = <<>>
    /\ okCmds = 0
    /\ emitted = <<>>
    /\ nRepo = 0
    /\ nCmd = 0
    /\ occupancy = EmptyOccupancy
    /\ fed = <<>>
    /\ NoCore
    /\ NoLock
    /\ NoLua

\* a Mutex that lets every caller in
MutLockShared(m, c) == TRUE

\* Mutex::lock returns to caller c only when no one holds the Mutex
lock(m, c) == m = Unlocked

\* the calls a caller can make
Requests ==
    {[op |-> "create_person", id |-> 0, location |-> Some(l)] : l \in Locations}
        \cup {[op |-> "move_person", id |-> id, location |-> Some(l)] :
                  id \in CallerIds, l \in Locations}
        \cup {[op |-> "get_person", id |-> id, location |-> None] : id \in CallerIds}
        \cup {[op |-> "get_all_persons", id |-> 0, location |-> None]}

LockFrame ==
    UNCHANGED <<rxAlive, phase, last, issued, removedIds, stored, okCmds, nRepo,
                unitVars, coreVars, luaVars>>

\* the caller's next statement leaves it at pc with the locals cur and result
Goto(c, pc, cur, result) ==
    callers' = [callers EXCEPT ![c] = [@ EXCEPT !.pc = pc, !.cur = cur,
                                                !.result = result]]

\* self.service.lock().unwrap()
Acquire(c) ==
    /\ callers[c].pc = "idle"
    /\ nCmd < MaxCmds
    /\ lock(svcLock, c)
    /\ svcLock' = c
    /\ \E rq \in Requests :
          callers' = [callers EXCEPT ![c] =
                          [pc |-> "locked", op |-> rq.op, id |-> rq.id,
                           location |-> rq.location, cur |-> None,
                           result |-> None]]
    /\ nCmd' = nCmd + 1
    /\ UNCHANGED <<data, chan, emitted, committed>>
    /\ LockFrame

\* create_person, VecRepository::create: `let id = self.data.len()`
CreateNextId(c) ==
    /\ callers[c].pc = "locked" /\ callers[c].op = "create_person"
    /\ Goto(c, "id", Some(NextId(data)), None)
    /\ UNCHANGED <<data, chan, emitted, nCmd, svcLock, committed>>
    /\ LockFrame

\* create_person, VecRepository::create: `self.data.push(Some(entity))`
CreatePush(c) ==
    /\ callers[c].pc = "id"
    /\ LET entity == Person(callers[c].cur[1], "Bob", callers[c].location[1])
       IN  /\ data' = Append(data, Some(entity))
           /\ committed' = Append(committed,
                                  PersonCreated(entity.id, entity.name,
                                                entity.location))
           /\ Goto(c, "stored", None, Some(Ok(entity)))
    /\ UNCHANGED <<chan, emitted, nCmd, svcLock>>
    /\ LockFrame

\* move_person: `let current_person = self.repository.get(person_id)?`
MoveGet(c) ==
    /\ callers[c].pc = "locked" /\ callers[c].op = "move_person"
    /\ LET r == get(data, callers[c].id)
       IN  IF r.ok THEN Goto(c, "got", Some(r.val), None)
                   ELSE Goto(c, "done", None, Some(r))
    /\ UNCHANGED <<data, chan, emitted, nCmd, svcLock, committed>>
    /\ LockFrame

\* move_person: `self.repository.update(person_id, updated_person.clone())?`
MoveUpdate(c) ==
    /\ callers[c].pc = "got"
    /\ LET current_person == callers[c].cur[1]
           updated_person == Person(callers[c].id, current_person.name,
                                    callers[c].location[1])
           u == update(data, callers[c].id, updated_person)
       IN  IF u.result.ok
           THEN /\ data' = u.data
                /\ committed' = Append(committed,
                                       PersonMoved(callers[c].id,
                                                   current_person.location,
                                                   callers[c].location[1]))
                /\ Goto(c, "stored", callers[c].cur, Some(Ok(updated_person)))
           ELSE /\ data' = u.data
                /\ committed' = committed
                /\ Goto(c, "done", None, Some(u.result))
    /\ UNCHANGED <<chan, emitted, nCmd, svcLock>>
    /\ LockFrame

\* the event create_person or move_person builds from its locals
EventOf(cl) ==
    IF cl.op = "create_person"
    THEN PersonCreated(cl.result[1].val.id, cl.result[1].val.name,
                       cl.location[1])
    ELSE PersonMoved(cl.id, cl.cur[1].location, cl.location[1])

\* create_person, move_person: `publish_event(&self.event_sender, ..)`
Publish(c) ==
    /\ callers[c].pc = "stored"
    /\ chan' = publish_event(chan, rxAlive, EventOf(callers[c]))
    /\ emitted' = Append(emitted, EventOf(callers[c]))
    /\ Goto(c, "done", None, callers[c].result)
    /\ UNCHANGED <<data, nCmd, svcLock, committed>>
    /\ LockFrame

\* get_person, get_all_persons
Read(c) ==
    /\ callers[c].pc = "locked"
    /\ callers[c].op \in {"get_person", "get_all_persons"}
    /\ Goto(c, "done", None,
            Some(IF callers[c].op = "get_person"
                 THEN get_person(data, chan, callers[c].id).result
                 ELSE get_all_persons(data, chan).result))
    /\ UNCHANGED <<data, chan, emitted, nCmd, svcLock, committed>>
    /\ LockFrame

\* the call returns its Result and the MutexGuard is dropped
Release(c) ==
    /\ callers[c].pc = "done"
    /\ svcLock' = Unlocked
    /\ Goto(c, "idle", None, callers[c].result)
    /\ UNCHANGED <<data, chan, emitted, nCmd, committed>>
    /\ LockFrame

NextLock ==
    \E c \in Callers :
        \/ Acquire(c)
        \/ CreateNextId(c) \/ CreatePush(c)
        \/ MoveGet(c) \/ MoveUpdate(c)
        \/ Publish(c)
        \/ Read(c)
        \/ Release(c)

SpecLock == InitLock /\ [][NextLock]_vars

\* ------------------- SpecReplay: a projection's thread and its readers
\* The thread register_projection spawns, statement by statement, and a
\* reader that queries the projection through the Arc<Mutex<P>> that
\* register_projection returned. register_projection has subscribed and taken
\* its snapshot; the snapshot is any short sequence of events (the store
\* behind the CoreApi's handle only ever gives the empty one).

\* the events of the snapshot and of the feed
ReplayEvents ==
    LET a == [x |-> 10, y |-> 20]
        b == [x |-> 30, y |-> 40]
    IN  {PersonCreated(0, "Alice", a), PersonCreated(1, "Alice", a),
         PersonMoved(0, a, b)}

\* the sequences of at most n events
RECURSIVE EventSeqs(_)
EventSeqs(n) ==
    IF n = 0 THEN {<<>>}
    ELSE LET shorter == EventSeqs(n - 1)
         IN  shorter \cup {Append(q, e) : q \in shorter, e \in ReplayEvents}

InitReplay ==
    /\ occupancy = EmptyOccupancy
    /\ fed = <<>>
    /\ data = <<>>
    /\ chan = <<>>
    /\ rxAlive = TRUE
    /\ phase = "projection"
    /\ last = [op |-> "none"]
    /\ issued = 0
    /\ removedIds = {}
    /\ stored = <<>>
    /\ okCmds = 0
    /\ emitted = <<>>
    /\ nRepo = 0
    /\ nCmd = 0
    /\ apiPc = "none"
    /\ storePc = "none"
    /\ store = [orig |-> EventStore_new("ingest"), dummy |-> EventStore_new("closed")]
    /\ handle = "orig"
    /\ feed = [s \in Subs |-> <<>>]
    /\ rpos = [s \in Subs |-> 0]
    /\ feedAlive = [s \in Subs |-> s = CoreProjection]
    /\ regPc = [s \in Subs |-> IF s = CoreProjection THEN "spawned" ELSE "idle"]
    /\ \E h \in EventSeqs(MaxHist) :
          hist = [s \in Subs |-> IF s = CoreProjection THEN h ELSE <<>>]
    /\ proj = [s \in Subs |-> EmptyOccupancy]
    /\ applied = [s \in Subs |-> <<>>]
    /\ subAt = [s \in Subs |-> 0]
    /\ calls = [s \in Subs |->
                  IF s = CoreProjection
                  THEN <<Call("subscribe"), Call("get_all_events")>> ELSE <<>>]
    /\ held = [s \in Subs |-> FALSE]
    /\ NoLock
    /\ NoLua

\* the positions at which the thread holds the Mutex of its projection
ThreadHolds == {"locked", "replaying", "rebuilt", "applying", "half", "applied"}

\* the Mutex of projection s: who holds it
ProjMutex(s) ==
    IF regPc[s] \in ThreadHolds THEN "thread"
    ELSE IF held[s] THEN "reader"
    ELSE Unlocked

ReplayFrame ==
    UNCHANGED <<svcVars, unitVars, lockVars, luaVars, apiPc, storePc, store, handle,
                feedAlive, hist, subAt>>

\* the processing loop sends an event on the feed
FeedSend(s) ==
    /\ Len(feed[s]) < MaxHist
    /\ \E e \in ReplayEvents : feed' = [feed EXCEPT ![s] = Append(@, e)]
    /\ UNCHANGED <<regPc, proj, applied, rpos, held, calls>>
    /\ ReplayFrame

\* `let mut projection = projection_clone.lock().unwrap();`
ThreadLock(s) ==
    /\ regPc[s] = "spawned"
    /\ lock(ProjMutex(s), "thread")
    /\ regPc' = [regPc EXCEPT ![s] = "locked"]
    /\ UNCHANGED <<feed, proj, applied, rpos, held, calls>>
    /\ ReplayFrame

\* `projection.initialize();` (the default, empty body)
Initialize(s) ==
    /\ regPc[s] = "locked"
    /\ regPc' = [regPc EXCEPT ![s] = "replaying"]
    /\ calls' = [calls EXCEPT ![s] = Append(@, Call("initialize"))]
    /\ UNCHANGED <<feed, proj, applied, rpos, held>>
    /\ ReplayFrame

\* one iteration of `for event in &historical_events { projection.apply(event); }`
ReplayApply(s) ==
    /\ regPc[s] = "replaying"
    /\ Len(applied[s]) < Len(hist[s])
    /\ LET event == hist[s][Len(applied[s]) + 1]
       IN  /\ proj' = [proj EXCEPT ![s] = apply(@, event)]
           /\ applied' = [applied EXCEPT ![s] = Append(@, event)]
           /\ calls' = [calls EXCEPT ![s] = Append(@, ApplyCall(event))]
    /\ UNCHANGED <<feed, regPc, rpos, held>>
    /\ ReplayFrame

\* `projection.after_rebuild();` (the default, empty body)
AfterRebuild(s) ==
    /\ regPc[s] = "replaying"
    /\ Len(applied[s]) = Len(hist[s])
    /\ regPc' = [regPc EXCEPT ![s] = "rebuilt"]
    /\ calls' = [calls EXCEPT ![s] = Append(@, Call("after_rebuild"))]
    /\ UNCHANGED <<feed, proj, applied, rpos, held>>
    /\ ReplayFrame

\* a thread that never drops the guard it took for the rebuild
MutThreadKeepsGuard(s) ==
    /\ regPc[s] = "rebuilt"
    /\ UNCHANGED vars

\* `drop(projection);`
ThreadUnlock(s) ==
    /\ regPc[s] = "rebuilt"
    /\ regPc' = [regPc EXCEPT ![s] = "live"]
    /\ UNCHANGED <<feed, proj, applied, rpos, held, calls>>
    /\ ReplayFrame

\* `while let Ok(event) = receiver.recv()`: the next event is taken
LiveRecv(s) ==
    /\ regPc[s] = "live"
    /\ rpos[s] < Len(feed[s])
    /\ rpos' = [rpos EXCEPT ![s] = @ + 1]
    /\ regPc' = [regPc EXCEPT ![s] = "received"]
    /\ UNCHANGED <<feed, proj, applied, held, calls>>
    /\ ReplayFrame

\* `let mut projection = projection_clone.lock().unwrap();` in the loop
LiveLock(s) ==
    /\ regPc[s] = "received"
    /\ lock(ProjMutex(s), "thread")
    /\ regPc' = [regPc EXCEPT ![s] = "applying"]
    /\ UNCHANGED <<feed, proj, applied, rpos, held, calls>>
    /\ ReplayFrame

\* apply of a PersonMoved, first statement: remove_person_from_location
LiveRemove(s) ==
    /\ regPc[s] = "applying"
    /\ LET event == feed[s][rpos[s]]
       IN  /\ event.type = "PersonMoved"
           /\ proj' = [proj EXCEPT ![s] =
                           remove_person_from_location(@, event.person_id,
                                                       event.from_location)]
    /\ regPc' = [regPc EXCEPT ![s] = "half"]
    /\ UNCHANGED <<feed, applied, rpos, held, calls>>
    /\ ReplayFrame

\* apply, last statement: add_person_to_location
LiveAdd(s) ==
    /\ LET event == feed[s][rpos[s]]
       IN  /\ \/ regPc[s] = "applying" /\ event.type = "PersonCreated"
              \/ regPc[s] = "half"
           /\ proj' = [proj EXCEPT ![s] =
                           add_person_to_location(
                               @, event.person_id,
                               IF event.type = "PersonCreated"
                               THEN event.location ELSE event.to_location)]
           /\ applied' = [applied EXCEPT ![s] = Append(@, event)]
           /\ calls' = [calls EXCEPT ![s] = Append(@, ApplyCall(event))]
    /\ regPc' = [regPc EXCEPT ![s] = "applied"]
    /\ UNCHANGED <<feed, rpos, held>>
    /\ ReplayFrame

\* the guard is dropped at the end of the loop body
LiveUnlock(s) ==
    /\ regPc[s] = "applied"
    /\ regPc' = [regPc EXCEPT ![s] = "live"]
    /\ UNCHANGED <<feed, proj, applied, rpos, held, calls>>
    /\ ReplayFrame

\* a LocationApi query: `self.projection.lock().unwrap()`
QueryLock(s) ==
    /\ ~held[s]
    /\ lock(ProjMutex(s), "reader")
    /\ held' = [held EXCEPT ![s] = TRUE]
    /\ UNCHANGED <<feed, regPc, proj, applied, rpos, calls>>
    /\ ReplayFrame

\* the query has read the projection and returns; its guard is dropped
QueryUnlock(s) ==
    /\ held[s]
    /\ held' = [held EXCEPT ![s] = FALSE]
    /\ UNCHANGED <<feed, regPc, proj, applied, rpos, calls>>
    /\ ReplayFrame

NextReplay ==
    \/ FeedSend(CoreProjection)
    \/ ThreadLock(CoreProjection)
    \/ Initialize(CoreProjection)
    \/ ReplayApply(CoreProjection)
    \/ AfterRebuild(CoreProjection)
    \/ ThreadUnlock(CoreProjection)
    \/ LiveRecv(CoreProjection)
    \/ LiveLock(CoreProjection)
    \/ LiveRemove(CoreProjection)
    \/ LiveAdd(CoreProjection)
    \/ LiveUnlock(CoreProjection)
    \/ QueryLock(CoreProjection)
    \/ QueryUnlock(CoreProjection)

SpecReplay == InitReplay /\ [][NextReplay]_vars

\* --------------------------- SpecCalls: the three locks and the API calls
\* The core with its three Mutexes: the one of the event-store handle, the
\* one of the PersonService and the one of the CoreApi's projection. The
\* threads of the core take them as the code does, and callers make calls
\* on the PersonApi, the LocationApi and the EventApi: a call starts, waits
\* for its lock, runs under it and returns.

\* the calls of SpecCalls
CallRequests ==
    {[op |-> "create_person", id |-> 0, location |-> Some([x |-> 10, y |-> 20])],
     [op |-> "move_person", id |-> 0, location |-> Some([x |-> 30, y |-> 40])],
     [op |-> "get_people_at", id |-> 0, location |-> Some([x |-> 10, y |-> 20])],
     [op |-> "count", id |-> 0, location |-> None]}

\* the Mutex a call takes
MutexOf(op) ==
    IF op \in {"create_person", "move_person"} THEN "service"
    ELSE IF op = "get_people_at" THEN "projection"
    ELSE "store"

\* caller c is inside the lock of its call
HoldsLock(c) == callers[c].pc \in {"locked", "done"}

\* the Mutex of the event-store handle: who holds it
StoreMutex ==
    IF storePc = "swapping" THEN "swap"
    ELSE IF \E c \in Callers : HoldsLock(c) /\ MutexOf(callers[c].op) = "store"
    THEN "caller"
    ELSE Unlocked

\* the state of the Mutex named m
MutexState(m) ==
    IF m = "service" THEN svcLock
    ELSE IF m = "projection" THEN ProjMutex(CoreProjection)
    ELSE StoreMutex

\* create_event_store's thread: `event_store_for_thread.lock().unwrap()`
SwapTake ==
    /\ storePc = "spawned"
    /\ lock(StoreMutex, "swap")
    /\ storePc' = "swapping"
    /\ UNCHANGED <<svcVars, unitVars, apiPc, store, handle, feed, rpos, feedAlive,
                   regPc, hist, proj, applied, subAt, calls, held, lockVars, luaVars>>

\* create_event_store's thread: mem::replace, the guard is dropped, and
\* start_processing moves the store taken out into the processing thread
SwapPut ==
    /\ storePc = "swapping"
    /\ handle' = "dummy"
    /\ storePc' = "running"
    /\ UNCHANGED <<svcVars, unitVars, apiPc, store, feed, rpos, feedAlive, regPc,
                   hist, proj, applied, subAt, calls, held, lockVars, luaVars>>

\* register_projection: `{ let mut store = self.event_store.lock().unwrap();
\* store.subscribe() }`
RegSubscribe == lock(StoreMutex, "new") /\ Subscribe(CoreProjection)

\* register_projection: `{ let store = self.event_store.lock().unwrap();
\* store.get_all_events() }`
RegSnapshot == lock(StoreMutex, "new") /\ Snapshot(CoreProjection)

CallFrame ==
    UNCHANGED <<rxAlive, phase, last, issued, removedIds, stored, okCmds, nRepo,
                unitVars, committed, apiPc, storePc, store, handle, feed, rpos,
                feedAlive, regPc, hist, proj, applied, subAt, calls, luaVars>>

\* a caller starts a call
CallStart(c) ==
    /\ apiPc = "ready"
    /\ callers[c].pc = "idle"
    /\ nCmd < MaxLiveCmds
    /\ \E rq \in CallRequests :
          callers' = [callers EXCEPT ![c] =
                          [pc |-> "waiting", op |-> rq.op, id |-> rq.id,
                           location |-> rq.location, cur |-> None,
                           result |-> None]]
    /\ nCmd' = nCmd + 1
    /\ UNCHANGED <<data, chan, emitted, svcLock, held>>
    /\ CallFrame

\* `self.service.lock()`, `self.projection.lock()`, `self.store.lock()`
CallLock(c) ==
    /\ callers[c].pc = "waiting"
    /\ lock(MutexState(MutexOf(callers[c].op)), c)
    /\ callers' = [callers EXCEPT ![c].pc = "locked"]
    /\ svcLock' = IF MutexOf(callers[c].op) = "service" THEN c ELSE svcLock
    /\ held' = IF MutexOf(callers[c].op) = "projection"
               THEN [held EXCEPT ![CoreProjection] = TRUE] ELSE held
    /\ UNCHANGED <<data, chan, emitted, nCmd>>
    /\ CallFrame

\* the operation of the call, under its lock
CallBody(c) ==
    /\ callers[c].pc = "locked"
    /\ LET cl == callers[c]
           r == IF cl.op = "create_person"
                THEN create_person(data, chan, rxAlive, "Bob", cl.location[1])
                ELSE IF cl.op = "move_person"
                THEN move_person(data, chan, rxAlive, cl.id, cl.location[1])
                ELSE [data |-> data, chan |-> chan, published |-> <<>>]
       IN  /\ data' = r.data
           /\ chan' = r.chan
           /\ emitted' = emitted \o r.published
    /\ callers' = [callers EXCEPT ![c].pc = "done"]
    /\ UNCHANGED <<nCmd, svcLock, held>>
    /\ CallFrame

\* the call returns and its guard is dropped
CallReturn(c) ==
    /\ callers[c].pc = "done"
    /\ callers' = [callers EXCEPT ![c].pc = "idle"]
    /\ svcLock' = IF MutexOf(callers[c].op) = "service" THEN Unlocked ELSE svcLock
    /\ held' = IF MutexOf(callers[c].op) = "projection"
               THEN [held EXCEPT ![CoreProjection] = FALSE] ELSE held
    /\ UNCHANGED <<data, chan, emitted, nCmd>>
    /\ CallFrame

\* the thread of the CoreApi's projection; its snapshot is empty
ProjectionThread(s) ==
    \/ ThreadLock(s) \/ Initialize(s) \/ AfterRebuild(s) \/ ThreadUnlock(s)
    \/ LiveRecv(s) \/ LiveLock(s) \/ LiveRemove(s) \/ LiveAdd(s) \/ LiveUnlock(s)

NextCalls ==
    \/ SwapTake \/ SwapPut
    \/ ProcessEvent
    \/ RegSubscribe \/ RegSnapshot
    \/ ProjectionThread(CoreProjection)
    \/ ApiReady
    \/ \E c \in Callers : CallStart(c) \/ CallLock(c) \/ CallBody(c) \/ CallReturn(c)

\* every thread that can take a step is scheduled; no caller has to start a
\* call
FairCalls ==
    /\ WF_vars(SwapTake) /\ WF_vars(SwapPut)
    /\ WF_vars(ProcessEvent)
    /\ WF_vars(ProjectionThread(CoreProjection))
    /\ \A c \in Callers :
          WF_vars(CallLock(c)) /\ WF_vars(CallBody(c)) /\ WF_vars(CallReturn(c))

SpecCalls == Init /\ [][NextCalls]_vars /\ FairCalls

\* ================================================================ SpecLua
\* The Lua worker: a LuaEngine that runs process_command in the loop of run()
\* on its own thread, and the callers that send it LuaCommands through the
\* command channel, by a LuaClient or by a Sender of their own.

\* the most commands sent to the LuaEngine
MaxLuaCmds == 3

\* the ids an ExecuteCallback command may name
CallbackIds == {1}

\* the variants of LuaCommand that carry a response_tx
WithResponse == {"RunScript", "Execute", "RegisterCallback", "ExecuteCallback"}

\* everything but the Lua worker stays as constructed
LuaFrame == UNCHANGED <<svcVars, unitVars, coreVars, lockVars>>

InitLua == InitLock

\* a command of the given kind, as sent: k is what became of it, tx whether
\* its response_tx exists, pc where its sender is
Command(kind, id, k, tx, pc) ==
    [kind |-> kind, id |-> id, state |-> k, responses |-> <<>>,
     response_tx |-> tx, pc |-> pc]

\* command_tx.send(command): the command is queued for the LuaEngine, and
\* the sender is then at pc; once the Receiver is dropped the send fails, the
\* command is dropped with its response_tx, and the sender is at failed
send(kind, id, tx, pc, failed) ==
    /\ command_tx
    /\ Len(requests) < MaxLuaCmds
    /\ IF engine = "dropped"
       THEN /\ requests' = Append(requests,
                               Command(kind, id, "discarded", FALSE, failed))
            /\ UNCHANGED command_rx
       ELSE /\ requests' = Append(requests,
                               Command(kind, id, "queued", tx, pc))
            /\ command_rx' = Append(command_rx, Len(requests) + 1)
    /\ UNCHANGED <<command_tx, engine, callbacks>>
    /\ LuaFrame

\* LuaClient::run_script up to response_rx.recv(): send(..).unwrap()
run_script == send("RunScript", 0, TRUE, "blocked", "panicked")

\* LuaClient::execute up to response_rx.recv()
execute == send("Execute", 0, TRUE, "blocked", "panicked")

\* LuaClient::execute_non_blocking: returns the receiver without waiting
execute_non_blocking == send("Execute", 0, TRUE, "detached", "panicked")

\* LuaClient::register_callback up to response_rx.recv()
register_callback == send("RegisterCallback", 0, TRUE, "blocked", "panicked")

\* a holder of a Sender sends ExecuteCallback {id, response_tx} and waits on
\* its response_rx (LuaClient has no method for this command)
SendExecuteCallback ==
    \E id \in CallbackIds : send("ExecuteCallback", id, TRUE, "blocked", "panicked")

\* a holder of a Sender sends Shutdown, which has no response channel
SendShutdown == send("Shutdown", 0, FALSE, "detached", "detached")

\* let _ = response_tx.send(result) at the end of an arm of process_command:
\* the result is put on the response channel of command r, and response_tx is
\* dropped with the arm
Respond(r, result) ==
    requests' = [requests EXCEPT ![r].state = "taken",
                                 ![r].responses = Append(@, result),
                                 ![r].response_tx = FALSE]

\* LuaEngine::process_command: one pass of the loop of run(). It blocks in
\* command_rx.recv(); a command is matched arm by arm, and an Err (no command
\* left and no Sender) ends the loop. A false return ends run().
process_command ==
    /\ engine = "running"
    /\ \/ /\ recv(command_rx, command_tx) = "event"
          /\ LET r == Head(command_rx)
                 cmd == requests[r]
             IN  /\ command_rx' = Tail(command_rx)
                 /\ CASE cmd.kind = "RunScript" ->
                            /\ \E result \in {"Ok", "Err"} : Respond(r, result)
                            /\ UNCHANGED engine
                      [] cmd.kind = "Execute" ->
                            /\ \E result \in {"Ok", "Err"} : Respond(r, result)
                            /\ UNCHANGED engine
                      [] cmd.kind = "ExecuteCallback" ->
                            /\ IF cmd.id \in callbacks
                               THEN \E result \in {"Ok", "Err"} :
                                        Respond(r, result)
                               ELSE Respond(r, "Err")
                            /\ UNCHANGED engine
                      [] cmd.kind = "Shutdown" ->
                            /\ requests' = [requests EXCEPT ![r].state = "taken"]
                            /\ engine' = "stopped"
                      [] OTHER ->
                            \* _ => {}: the command is dropped as it is
                            /\ requests' = [requests EXCEPT
                                               ![r].state = "taken",
                                               ![r].response_tx = FALSE]
                            /\ UNCHANGED engine
       \/ /\ recv(command_rx, command_tx) = "closed"
          /\ engine' = "stopped"
          /\ UNCHANGED <<command_rx, requests>>
    /\ UNCHANGED <<command_tx, callbacks>>
    /\ LuaFrame

\* response_rx.recv().unwrap() of the caller of command r: it returns the
\* response once there is one, and panics on the RecvError it gets when
\* response_tx is gone with nothing sent
response_recv(r) ==
    /\ requests[r].pc = "blocked"
    /\ \/ /\ requests[r].responses # <<>>
          /\ requests' = [requests EXCEPT ![r].pc = "returned"]
       \/ /\ requests[r].responses = <<>>
          /\ ~requests[r].response_tx
          /\ requests' = [requests EXCEPT ![r].pc = "panicked"]
    /\ UNCHANGED <<command_rx, command_tx, engine, callbacks>>
    /\ LuaFrame

\* the LuaClient and every other Sender are dropped, which no caller inside
\* a LuaClient call can let happen
DropClient ==
    /\ command_tx
    /\ \A r \in DOMAIN requests : requests[r].pc # "blocked"
    /\ command_tx' = FALSE
    /\ UNCHANGED <<command_rx, engine, callbacks, requests>>
    /\ LuaFrame

\* the LuaEngine is dropped after run() returned: its Receiver goes, and with
\* it the commands still queued and their response_tx
DropEngine ==
    /\ engine = "stopped"
    /\ engine' = "dropped"
    /\ command_rx' = <<>>
    /\ requests' = [r \in DOMAIN requests |->
                       IF requests[r].state = "queued"
                       THEN [requests[r] EXCEPT !.state = "discarded",
                                                !.response_tx = FALSE]
                       ELSE requests[r]]
    /\ UNCHANGED <<command_tx, callbacks>>
    /\ LuaFrame

NextLua ==
    \/ run_script
    \/ execute
    \/ execute_non_blocking
    \/ register_callback
    \/ SendExecuteCallback
    \/ SendShutdown
    \/ process_command
    \/ \E r \in DOMAIN requests : response_recv(r)
    \/ DropClient
    \/ DropEngine

SpecLua == InitLua /\ [][NextLua]_vars

\* ================================================================ claims

\* the permanent log: the events of the store the processing loop owns
Log == store.orig.events

\* the EventStore a caller reaches through the shared handle
HandleStore == store[handle]

\* ingestion has caught up: the processing loop runs and has taken every
\* published event
CaughtUp == storePc = "running" /\ chan = <<>>

\* the projection of feed s has caught up as well: it is live and has taken
\* every event sent on its feed
ProjectionCaughtUp(s) ==
    CaughtUp /\ regPc[s] = "live" /\ rpos[s] = Len(feed[s])

\* C1: once ingestion has caught up, get_all_events() on the shared handle
\* returns exactly one event per successful command, in the order in which
\* the commands completed.
C1_HandleReturnsAllEvents ==
    CaughtUp => get_all_events(HandleStore) = emitted

\* C2: once ingestion and CoreApi's projection have caught up, the projection
\* has applied the event of every successful command exactly once and in
\* order, so that its queries answer for all of them (after create A at L1,
\* create B at L1, move A to L2: people_at(L1) = [B], people_at(L2) = [A],
\* occupied_count() = 2).
C2_ProjectionAppliesEveryEvent ==
    ProjectionCaughtUp(CoreProjection) =>
        /\ applied[CoreProjection] = emitted
        /\ \A l \in Locations :
              get_people_at_location(proj[CoreProjection], l) =
              get_people_at_location(ApplyAll(EmptyOccupancy, emitted), l)
        /\ get_occupied_location_count(proj[CoreProjection]) =
           get_occupied_location_count(ApplyAll(EmptyOccupancy, emitted))

\* C3: once ingestion has caught up, event_count() on the shared handle is
\* the number of successful create / move commands.
C3_CountIsNumberOfCommands ==
    CaughtUp => event_count(HandleStore) = okCmds

\* C4: a feed whose consumer is alive has been sent every event the
\* processing loop ingested after subscribe() returned it, whether subscribe()
\* came before or after the start of the processing loop.
C4_FeedGetsEventsAfterSubscribe ==
    \A s \in Subs :
        (regPc[s] # "idle" /\ feedAlive[s]) =>
            feed[s] = SubSeq(Log, subAt[s] + 1, Len(Log))

\* sequence f is a contiguous segment of sequence l
IsSegment(f, l) ==
    \E i \in 0 .. (Len(l) - Len(f)) : f = SubSeq(l, i + 1, i + Len(f))

\* C5: what was sent on each feed, and what its consumer has received of it,
\* is a contiguous segment of the permanent log: log order, no duplicate, no
\* gap.
C5_FeedsAreLogSegments ==
    \A s \in Subs :
        /\ Len(feed[s]) <= Len(Log)
        /\ IsSegment(feed[s], Log)
        /\ IsSegment(SubSeq(feed[s], 1, rpos[s]), Log)
        /\ IsSegment(applied[s], Log)

\* C5 witness: the processing loop holds two feeds, has sent three distinct
\* events on both, and one consumer has received them all.
C5_Witness ==
    /\ storePc = "running"
    /\ Len(store.orig.subscribers) = 2
    /\ Len(Log) = 3
    /\ Log[1] # Log[2] /\ Log[2] # Log[3] /\ Log[1] # Log[3]
    /\ \A s \in Subs : feed[s] = Log
    /\ \E s \in Subs : rpos[s] = 3

\* the person stored under id is absent: the id was never issued, or its
\* entity was removed
Absent(id) == id >= issued \/ id \in removedIds

IsCommand(l) == l.op \in {"create_person", "move_person"}
IsRead(l) == l.op \in {"get_person", "get_all_persons"}

\* C7: with the consumer of the event channel gone, create_person and
\* move_person on a live id still return Ok with the created / updated
\* Person, a get_person right after returns that Person, and the only
\* failure a command reports is the store's own NotFound.
C7_ClosedChannelStillOk ==
    [][(nCmd' # nCmd /\ IsCommand(last') /\ ~rxAlive) =>
         /\ last'.op = "create_person" =>
              /\ last'.result.ok
              /\ last'.result.val.name = last'.args[1]
              /\ last'.result.val.location = last'.args[2]
         /\ last'.op = "move_person" =>
              /\ last'.result.ok <=> ~Absent(last'.args[1])
              /\ last'.result.ok =>
                   /\ last'.result.val.id = last'.args[1]
                   /\ last'.result.val.location = last'.args[2]
         /\ last'.result.ok =>
              get_person(data', chan', last'.result.val.id).result = Ok(last'.result.val)
         /\ ~last'.result.ok => last'.result = Err(NotFound)]_vars

\* C7 witness: a move_person issued after the receiver was dropped returned Ok
\* and the moved Person is in the store.
C7_Witness ==
    /\ ~rxAlive
    /\ last.op = "move_person"
    /\ ~last.rx
    /\ last.result.ok
    /\ get(data, last.args[1]) = Ok(last.result.val)

\* C8: get_person and move_person on an id that was never issued or was
\* removed return NotFound; a failed move_person hands no event to the
\* channel and leaves the Entity Store unchanged.
C8_AbsentIdNotFound ==
    [][(nCmd' # nCmd /\ last'.op \in {"get_person", "move_person"}) =>
         /\ Absent(last'.args[1]) => last'.result = Err(NotFound)
         /\ (last'.op = "move_person" /\ ~last'.result.ok) =>
              /\ data' = data
              /\ emitted' = emitted
              /\ chan' = chan]_vars

\* C8 witness: move_person on a removed id failed with NotFound.
C8_Witness ==
    /\ last.op = "move_person"
    /\ last.args[1] \in removedIds
    /\ last.result = Err(NotFound)

\* C9: the events handed to the event channel are as many as the successful
\* create_person / move_person calls, all of them are in the channel while
\* its receiver lives, and get_person / get_all_persons hand over no event
\* and leave the Entity Store unchanged.
C9_OneEventPerSuccess ==
    [][/\ Len(emitted') = okCmds'
       /\ rxAlive' => chan' = emitted'
       /\ (nCmd' # nCmd /\ IsCommand(last') /\ last'.result.ok) =>
             Len(emitted') = Len(emitted) + 1
       /\ (nCmd' # nCmd /\ IsRead(last')) =>
             /\ emitted' = emitted
             /\ chan' = chan
             /\ data' = data]_vars

\* C9 witness: a read issued after two successful commands.
C9_Witness ==
    /\ okCmds >= 2
    /\ nCmd >= 3
    /\ IsRead(last)
    /\ Len(emitted) = 2

\* the id carried by the result of the add / create / create_person in `l`
AssignedId(l) == IF l.op = "add" THEN l.result.val ELSE l.result.val.id

\* C10: the id assigned by an add / create equals the number of add / create
\* calls made before it, whatever was updated or removed in between.
C10_SequentialIds ==
    last.op \in {"add", "create", "create_person"} =>
        /\ last.result.ok
        /\ AssignedId(last) = issued - 1

\* C10 witness: create A (id 0), remove A, create B gives B.id = 1.
C10_Witness ==
    /\ last.op \in {"create", "create_person"}
    /\ removedIds = {0}
    /\ issued = 2
    /\ last.result.val.id = 1

\* the location an event places its person at
Destination(e) == IF e.type = "PersonCreated" THEN e.location ELSE e.to_location

\* the index in es of the most recent event of person p before position i,
\* 0 if there is none
LastEventBefore(es, p, i) ==
    LET S == {j \in 1 .. (i - 1) : es[j].person_id = p}
    IN  IF S = {} THEN 0 ELSE CHOOSE j \in S : \A k \in S : k <= j

\* every PersonMoved of es leaves from the location the person's previous
\* event placed it at
MovesFromCurrent(es) ==
    \A i \in 1 .. Len(es) :
        es[i].type = "PersonMoved" =>
            LET j == LastEventBefore(es, es[i].person_id, i)
            IN  j > 0 /\ Destination(es[j]) = es[i].from_location

\* no person of es is the subject of two PersonCreated events
CreatedOnce(es) ==
    \A i, j \in 1 .. Len(es) :
        (es[i].type = "PersonCreated" /\ es[j].type = "PersonCreated"
         /\ es[i].person_id = es[j].person_id) => i = j

RECURSIVE ArrivalsFrom(_, _, _)
\* the persons whose most recent event of es is at a position >= i and places
\* them at location l, in the order of those events
ArrivalsFrom(es, l, i) ==
    IF i > Len(es) THEN <<>>
    ELSE LET rest == ArrivalsFrom(es, l, i + 1)
             p == es[i].person_id
         IN  IF Destination(es[i]) = l
                /\ LastEventBefore(es, p, Len(es) + 1) = i
             THEN <<p>> \o rest
             ELSE rest

Arrivals(es, l) == ArrivalsFrom(es, l, 1)

\* people_at and occupied_locations are what the events of es say
OccupancyMatches(o, es) ==
    /\ \A l \in Locations : get_people_at_location(o, l) = Arrivals(es, l)
    /\ get_occupied_locations(o) = {l \in Locations : Arrivals(es, l) # <<>>}

\* the elements of sequence q
Elements(q) == {q[i] : i \in 1 .. Len(q)}

\* C6 as stated, with "exactly the ids" read as a set: after any sequence of
\* events in which each PersonMoved leaves from the person's current location,
\* people_at(L) holds exactly the persons whose most recent event placed them
\* at L, and only the locations with such a person are occupied.
C6_Original ==
    MovesFromCurrent(fed) =>
        /\ \A l \in Locations :
              Elements(get_people_at_location(occupancy, l)) =
              Elements(Arrivals(fed, l))
        /\ get_occupied_locations(occupancy) =
           {l \in Locations : Arrivals(fed, l) # <<>>}

\* C6 amended: the same, for sequences in which moreover no person is created
\* twice.
C6_ProjectionMatchesEvents ==
    (MovesFromCurrent(fed) /\ CreatedOnce(fed)) => OccupancyMatches(occupancy, fed)

\* C6 witness: two persons were created at one location and one of them, and
\* then the other, moved away: the location is no longer occupied.
C6_Witness ==
    /\ MovesFromCurrent(fed) /\ CreatedOnce(fed)
    /\ Len(fed) = 4
    /\ fed[1].type = "PersonCreated" /\ fed[2].type = "PersonCreated"
    /\ fed[1].location = fed[2].location
    /\ fed[3].type = "PersonMoved" /\ fed[4].type = "PersonMoved"
    /\ fed[3].person_id # fed[4].person_id
    /\ fed[1].location \notin get_occupied_locations(occupancy)
    /\ get_occupied_location_count(occupancy) = 1

\* C11: get(id) succeeds exactly for the ids an add / create returned and no
\* remove has taken since, with the entity most recently stored under the id,
\* and fails with NotFound for every other id.
C11_GetReturnsLatestStored ==
    \A id \in 0 .. (Len(data) + 1) :
        get(data, id) = IF id \in DOMAIN stored THEN Ok(stored[id])
                        ELSE Err(NotFound)

\* C11 witness: with one id removed and another updated, a get of the updated
\* id returned the updated entity.
C11_Witness ==
    /\ removedIds # {}
    /\ last.op \in {"get", "get_person"}
    /\ last.result.ok
    /\ last.result.val.name = "Bob"
    /\ last.args[1] \in DOMAIN stored
    /\ last.args[1] \notin removedIds

\* a move_person call has just returned
Moved == nCmd' # nCmd /\ last'.op = "move_person"

\* C12: a successful move_person(id, new_location) returns and stores a Person
\* with the id and the name of the Person stored under id before the call and
\* with the new location, and changes no other slot of the Entity Store.
C12_MoveChangesOnlyLocation ==
    [][(Moved /\ last'.result.ok) =>
         LET id == last'.args[1]
             before == get(data, id)
             after == last'.result.val
         IN  /\ before.ok
             /\ after.id = before.val.id
             /\ after.name = before.val.name
             /\ after.location = last'.args[2]
             /\ get(data', id) = Ok(after)
             /\ Len(data') = Len(data)
             /\ \A j \in 1 .. Len(data) : j # id + 1 => data'[j] = data[j]]_vars

\* C12 witness: with two live persons in the store, one was moved to another
\* location and kept its name.
C12_Witness ==
    /\ last.op = "move_person"
    /\ last.result.ok
    /\ Len(get_all(data).val) >= 2
    /\ \E e \in {emitted[i] : i \in 1 .. Len(emitted)} :
          /\ e.type = "PersonMoved"
          /\ e.person_id = last.args[1]
          /\ e.from_location # e.to_location
    /\ \E i \in DOMAIN stored :
          stored[i].name # last.result.val.name

\* C13: move_person of a live person to the location it is at succeeds and
\* hands exactly one event to the channel, PersonMoved with from_location
\* equal to to_location.
C13_NoOpMoveStillEmits ==
    [][(Moved /\ get(data, last'.args[1]).ok
              /\ get(data, last'.args[1]).val.location = last'.args[2]) =>
         LET event == PersonMoved(last'.args[1], last'.args[2], last'.args[2])
         IN  /\ last'.result.ok
             /\ emitted' = Append(emitted, event)
             /\ rxAlive => chan' = Append(chan, event)]_vars

\* C13 witness: the last move_person succeeded and the last event handed to
\* the channel is its PersonMoved with equal locations.
C13_Witness ==
    /\ last.op = "move_person"
    /\ last.result.ok
    /\ emitted # <<>>
    /\ LET e == emitted[Len(emitted)]
       IN  /\ e.type = "PersonMoved"
           /\ e.person_id = last.args[1]
           /\ e.from_location = e.to_location
           /\ e.to_location = last.args[2]

\* the occupancy of test_most_crowded_location / of the specification's
\* example: one person at A, three at B, two at C
ExampleOccupancy ==
    LET A == [x |-> 10, y |-> 20]
        B == [x |-> 30, y |-> 40]
        C == [x |-> 50, y |-> 60]
    IN  [l \in {A, B, C} |->
            IF l = A THEN <<1>> ELSE IF l = B THEN <<2, 3, 4>> ELSE <<5, 6>>]

\* r is a correct answer of most_crowded() for the occupancy o
IsMostCrowded(o, r) ==
    /\ r = None <=> get_occupied_location_count(o) = 0
    /\ r # None =>
         /\ r[1][1] \in get_occupied_locations(o)
         /\ r[1][2] = Len(get_people_at_location(o, r[1][1]))
         /\ \A l \in get_occupied_locations(o) :
               Len(get_people_at_location(o, l)) <= r[1][2]

\* C14: most_crowded() returns none iff no location is occupied; otherwise a
\* location with its occupant count, the count being the maximum over all
\* locations; for the counts {A:1, B:3, C:2} it returns (B, 3).
C14_MostCrowdedIsMaximum ==
    /\ get_most_crowded_location(occupancy) # {}
    /\ \A r \in get_most_crowded_location(occupancy) : IsMostCrowded(occupancy, r)
    /\ last.op = "get_most_crowded_location" =>
           /\ IsMostCrowded(occupancy, last.result)
           /\ occupancy = ExampleOccupancy =>
                  last.result = Some(<<[x |-> 30, y |-> 40], 3>>)

\* C14 witness: one person at A = (10,20), three at B = (30,40), two at
\* C = (50,60), and the call has returned (B, 3).
C14_Witness ==
    /\ last.op = "get_most_crowded_location"
    /\ last.result = Some(<<[x |-> 30, y |-> 40], 3>>)
    /\ occupancy = ExampleOccupancy

\* remove_person_from_location has emptied location l at some point: the
\* events fed so far hold a move of a person away from l while l was occupied
\* by that person alone
C15_Emptied(l) ==
    \E i \in 1 .. Len(fed) :
        /\ fed[i].type = "PersonMoved"
        /\ fed[i].from_location = l
        /\ fed[i].to_location # l
        /\ LET before == ApplyAll(EmptyOccupancy, SubSeq(fed, 1, i - 1))
           IN  /\ l \in DOMAIN before
               /\ \A k \in 1 .. Len(before[l]) : before[l][k] = fed[i].person_id

\* C15: after any sequence of PersonCreated / PersonMoved events, well-formed
\* or not, no location maps to an empty occupant list, and
\* occupied_location_count() is the number of locations with an occupant.
C15_NoEmptyEntry ==
    /\ \A l \in DOMAIN occupancy : occupancy[l] # <<>>
    /\ get_occupied_location_count(occupancy) =
           Cardinality({l \in Locations : get_people_at_location(occupancy, l) # <<>>})

\* C15 witness: an ill-formed sequence (a move of a person that was never
\* created, or from a location the person is not at) has been applied, one
\* location has been emptied by a move and is now absent from the map.
C15_Witness ==
    /\ \E l \in Locations : C15_Emptied(l) /\ l \notin DOMAIN occupancy
    /\ \E i \in 1 .. Len(fed) :
          /\ fed[i].type = "PersonMoved"
          /\ fed[i].person_id \notin
                 Elements(get_people_at_location(
                     ApplyAll(EmptyOccupancy, SubSeq(fed, 1, i - 1)),
                     fed[i].from_location))
    /\ get_occupied_location_count(occupancy) = 1

\* p is a prefix of q
IsPrefix(p, q) == Len(p) <= Len(q) /\ p = SubSeq(q, 1, Len(p))

\* C16: the permanent log is append-only: in every step the log before is a
\* prefix of the log after, and event_count(), of the store the processing
\* loop owns and of the store behind the handle, never decreases.
C16_LogAppendOnly ==
    [][/\ IsPrefix(Log, Log')
       /\ event_count(store'.orig) >= event_count(store.orig)
       /\ event_count(HandleStore') >= event_count(HandleStore)]_vars

\* C16 witness: the log holds three different events.
C16_Witness ==
    /\ Len(Log) = 3
    /\ Log[1] # Log[2] /\ Log[2] # Log[3] /\ Log[1] # Log[3]
    /\ Log[3].type = "PersonCreated"

\* C17: the log of the processing loop is a prefix of the events the
\* producer handed to publish_event, in publish order; what is not yet in the
\* log is what waits in the channel.
C17_LogIsPrefixOfPublished ==
    /\ IsPrefix(Log, emitted)
    /\ emitted = Log \o chan

\* C17 witness: two different events are in the log and a third one has been
\* published and waits in the channel.
C17_Witness ==
    /\ Len(Log) = 2 /\ Log[1] # Log[2]
    /\ Len(chan) = 1 /\ chan[1] \notin Elements(Log)
    /\ Len(emitted) = 3

\* C18: the processing loop's iteration for an event appends it to the log,
\* drops exactly the subscribers whose consumer is gone, keeps the others in
\* order and delivers the event to each of them; the feeds of the dropped and
\* of the unsubscribed are left as they are.
C18_DeadSubscriberDropped ==
    [][Log' # Log =>
         LET event == Head(chan)
             subs == store.orig.subscribers
         IN  /\ Log' = Append(Log, event)
             /\ store'.orig.subscribers =
                    SelectSeq(subs, LAMBDA s : feedAlive[s])
             /\ \A s \in Subs :
                    feed'[s] = IF s \in Elements(subs) /\ feedAlive[s]
                               THEN Append(feed[s], event)
                               ELSE feed[s]]_vars

\* C18 witness: the extra feed got the first event, its consumer went away,
\* the loop dropped it from the subscribers at the second event and the
\* third event was processed as well; the log and the other feed hold all
\* three.
C18_Witness ==
    /\ Len(Log) = 3
    /\ feed["extra"] = <<Log[1]>>
    /\ ~feedAlive["extra"]
    /\ store.orig.subscribers = <<CoreProjection>>
    /\ feed[CoreProjection] = Log

\* the step in which the thread of projection s finishes its rebuild and
\* after_rebuild fires
RebuildDone(s) == regPc[s] = "spawned" /\ regPc'[s] = "live"

\* the step in which register_projection takes the snapshot for projection s
SnapshotTaken(s) == regPc[s] = "subscribed" /\ regPc'[s] = "spawned"

\* C19: when after_rebuild fires, the projection has applied the events the
\* log held at its registration, in log order, without omission or duplicate:
\* what it has applied is a prefix of the log that covers at least the events
\* the log held when it subscribed.
C19_RebuildAppliesHistory ==
    [][\A s \in Subs :
         RebuildDone(s) =>
             /\ IsPrefix(applied'[s], Log)
             /\ Len(applied'[s]) >= subAt[s]]_vars

\* C20: an event ingested between subscribe() and get_all_events() is in the
\* historical snapshot and on the live feed as well (so that the projection
\* comes to apply it twice).
C20_WindowEventInSnapshotAndFeed ==
    [][\A s \in Subs :
         SnapshotTaken(s) =>
             \A i \in (subAt[s] + 1) .. Len(Log) :
                 /\ Log[i] \in Elements(hist'[s])
                 /\ Log[i] \in Elements(feed[s])]_vars

\* what the code does instead: every snapshot is empty, and no projection
\* ever applies an event of the log twice
C20_SnapshotAlwaysEmpty ==
    \A s \in Subs :
        /\ hist[s] = <<>>
        /\ IsSegment(applied[s], Log)

\* an event was ingested between subscribe() and get_all_events() of the
\* extra projection, which then ran its rebuild and its live loop
C20_WindowReached ==
    /\ regPc["extra"] = "live"
    /\ subAt["extra"] = 0
    /\ feed["extra"] # <<>>
    /\ applied["extra"] = feed["extra"]
    /\ Len(Log) >= 2

\* a direct repository call opname has just returned
RepoCalled(opname) == nRepo' # nRepo /\ last'.op = opname

\* every slot but the one of id is the same before and after the step
OtherSlotsUnchanged(id) ==
    /\ Len(data') = Len(data)
    /\ \A j \in 1 .. Len(data) : j # id + 1 => data'[j] = data[j]

\* C23: update(id, e) on a live id returns the entity stored before, makes
\* get(id) return e and leaves every other slot unchanged; on a never-issued
\* or removed id it returns NotFound and leaves the whole store unchanged.
C23_UpdateAllOrNothing ==
    [][RepoCalled("update") =>
         LET id == last'.args[1]
             e == last'.args[2]
         IN  IF get(data, id).ok
             THEN /\ last'.result = Ok(get(data, id).val)
                  /\ get(data', id) = Ok(e)
                  /\ OtherSlotsUnchanged(id)
             ELSE /\ last'.result = Err(NotFound)
                  /\ data' = data]_vars

\* C23 witness: update was called on a removed id, returned NotFound and the
\* slot is still removed, next to a live entity.
C23_Witness ==
    /\ last.op = "update"
    /\ last.result = Err(NotFound)
    /\ last.args[1] \in removedIds
    /\ get(data, last.args[1]) = Err(NotFound)

\* a second witness of C23: update on a live id next to another entity
C23_LiveWitness ==
    /\ last.op = "update"
    /\ last.result.ok
    /\ last.result.val.name = "Alice"
    /\ get(data, last.args[1]) = Ok(last.args[2])
    /\ Len(get_all(data).val) = 2

RECURSIVE InIdOrder(_, _)
\* the entities of st (id -> entity) with ids below n, by ascending id
InIdOrder(st, n) ==
    IF n = 0 THEN <<>>
    ELSE InIdOrder(st, n - 1) \o (IF n - 1 \in DOMAIN st THEN <<st[n - 1]>> ELSE <<>>)

\* C24: get_all() returns exactly the entities added / created and not
\* removed, each with its latest stored value, in the order of their ids; a
\* get_all / get_all_persons call that has just returned has returned that.
C24_GetAllLiveInIdOrder ==
    /\ get_all(data) = Ok(InIdOrder(stored, issued))
    /\ last.op \in {"get_all", "get_all_persons"} =>
           last.result = Ok(InIdOrder(stored, issued))

\* C24 witness: get_all returned two entities that stand after a removed
\* slot, one of them with an updated value.
C24_Witness ==
    /\ last.op \in {"get_all", "get_all_persons"}
    /\ 0 \in removedIds
    /\ Len(last.result.val) = 2
    /\ last.result.val[1].id = 1 /\ last.result.val[2].id = 2
    /\ last.result.val[1].location # last.result.val[2].location

\* C25: remove(id) on a live id returns the stored entity and leaves every
\* other id as it was; on a removed or never-issued id it returns NotFound
\* and changes nothing.
C25_RemoveOnlyThatId ==
    [][RepoCalled("remove") =>
         LET id == last'.args[1]
         IN  IF get(data, id).ok
             THEN /\ last'.result = Ok(get(data, id).val)
                  /\ get(data', id) = Err(NotFound)
                  /\ OtherSlotsUnchanged(id)
                  /\ \A j \in 0 .. Len(data) : j # id => get(data', j) = get(data, j)
             ELSE /\ last'.result = Err(NotFound)
                  /\ data' = data]_vars

\* C25 witness: the second remove of an id returned NotFound and the id is
\* still absent.
C25_Witness ==
    /\ last.op = "remove"
    /\ last.result = Err(NotFound)
    /\ last.args[1] \in removedIds
    /\ get(data, last.args[1]) = Err(NotFound)

\* a second witness of C25: a live id was removed and another entity is
\* still retrievable
C25_LiveWitness ==
    /\ last.op = "remove"
    /\ last.result.ok
    /\ get(data, last.args[1]) = Err(NotFound)
    /\ \E j \in 0 .. Len(data) : j # last.args[1] /\ get(data, j).ok

\* a PersonService command opname has just returned successfully
Succeeded(opname) == nCmd' # nCmd /\ last'.op = opname /\ last'.result.ok

\* C29: a successful command emits the one event that describes its
\* mutation: PersonCreated with the id, name and location of the returned
\* Person; PersonMoved with the person's id, the location stored before the
\* move and the requested location.
C29_EventDescribesMutation ==
    [][/\ Succeeded("create_person") =>
            LET p == last'.result.val
            IN  /\ emitted' = Append(emitted, PersonCreated(p.id, p.name, p.location))
                /\ get(data', p.id) = Ok(p)
                /\ p.name = last'.args[1] /\ p.location = last'.args[2]
       /\ Succeeded("move_person") =>
            LET id == last'.args[1]
            IN  emitted' = Append(emitted,
                    PersonMoved(id, get(data, id).val.location, last'.args[2]))]_vars

\* C29 witness: a person made by create_person was moved to another location
\* and the last two events are its PersonCreated and its PersonMoved.
C29_Witness ==
    /\ last.op = "move_person" /\ last.result.ok
    /\ Len(emitted) >= 2
    /\ LET c == emitted[Len(emitted) - 1]
           m == emitted[Len(emitted)]
       IN  /\ c.type = "PersonCreated" /\ m.type = "PersonMoved"
           /\ c.person_id = m.person_id
           /\ m.from_location = c.location
           /\ m.to_location # m.from_location
           /\ c.person_id > 0

\* the step applies to the projection the event it applied last
AppliedAgain == fed # <<>> /\ fed' = Append(fed, fed[Len(fed)])

\* C30 as stated: applying the same PersonCreated or PersonMoved event twice
\* in a row leaves the same state as applying it once.
C30_Original ==
    [][AppliedAgain => occupancy' = occupancy]_vars

\* C30, amended: applying the same event twice in a row leaves the same
\* occupied locations and the same set of occupants at each location as
\* applying it once, but the list of the location the event puts the person
\* at holds the person's id once more; the state is the same only for a
\* PersonMoved whose from_location is its to_location.
C30_SecondApplyAddsDuplicate ==
    [][AppliedAgain =>
         LET e == fed[Len(fed)]
             at == Destination(e)
         IN  /\ get_occupied_locations(occupancy') = get_occupied_locations(occupancy)
             /\ \A l \in get_occupied_locations(occupancy) :
                    Elements(occupancy'[l]) = Elements(occupancy[l])
             /\ IF e.type = "PersonMoved" /\ e.from_location = e.to_location
                THEN occupancy' = occupancy
                ELSE occupancy' =
                         [occupancy EXCEPT ![at] = Append(@, e.person_id)]]_vars

\* C30 witness: the same PersonMoved between two different locations was
\* applied twice in a row and the person is listed twice at its destination.
C30_Witness ==
    /\ Len(fed) >= 3
    /\ fed[Len(fed)] = fed[Len(fed) - 1]
    /\ LET e == fed[Len(fed)]
       IN  /\ e.type = "PersonMoved"
           /\ e.from_location # e.to_location
           /\ fed[1] = PersonCreated(e.person_id, "Alice", e.from_location)
           /\ get_people_at_location(occupancy, e.to_location) =
                  <<e.person_id, e.person_id>>

\* the registration protocol of feed s, given its snapshot and what was sent
\* on its feed: subscribe, snapshot, initialize, the snapshot's events in
\* order, after_rebuild, the feed's events in order
ProtocolOf(s) ==
    <<[call |-> "subscribe"], [call |-> "get_all_events"], [call |-> "initialize"]>>
    \o [i \in 1 .. Len(hist[s]) |-> [call |-> "apply", event |-> hist[s][i]]]
    \o <<[call |-> "after_rebuild"]>>
    \o [i \in 1 .. Len(feed[s]) |-> [call |-> "apply", event |-> feed[s][i]]]

\* C26: the calls made for every projection follow the registration
\* protocol: subscribe, snapshot, initialize once, the snapshot's events in
\* order, after_rebuild once, then the live events in feed order; nothing is
\* applied before initialize and no live event before after_rebuild.
C26_RegistrationProtocol ==
    \A s \in Subs :
        /\ IsPrefix(calls[s], ProtocolOf(s))
        /\ regPc[s] = "idle" <=> calls[s] = <<>>
        /\ regPc[s] = "subscribed" <=> Len(calls[s]) = 1
        /\ regPc[s] = "spawned" <=> Len(calls[s]) = 2
        /\ regPc[s] \notin {"idle", "subscribed", "spawned"} =>
               Len(calls[s]) = 4 + Len(hist[s]) + rpos[s]

\* C26 witness: a projection was registered, rebuilt and has applied two
\* different live events while a third waits on its feed.
C26_Witness ==
    \E s \in Subs :
        /\ Len(calls[s]) = 6
        /\ calls[s][4] = [call |-> "after_rebuild"]
        /\ calls[s][5].call = "apply" /\ calls[s][6].call = "apply"
        /\ calls[s][5].event # calls[s][6].event
        /\ Len(feed[s]) = 3

\* the feeds registered with the processing loop hold the whole log since
\* their subscription
FeedsHaveLog ==
    \A i \in 1 .. Len(store.orig.subscribers) :
        LET s == store.orig.subscribers[i]
        IN  feed[s] = SubSeq(Log, subAt[s] + 1, Len(Log))

\* C27: publish only enqueues: the step that hands an event to publish_event
\* appends it to the channel and touches neither the log nor a feed, whether
\* or not the processing loop runs; and every event enqueued while the loop is
\* running is eventually in the log and on every feed registered with the
\* loop.
C27_PublishedEventuallyStored ==
    /\ [][emitted' # emitted =>
            /\ \E e \in {emitted'[Len(emitted')]} :
                  emitted' = Append(emitted, e) /\ chan' = Append(chan, e)
            /\ store' = store /\ feed' = feed]_vars
    /\ \A n \in 1 .. MaxLiveCmds :
          (storePc = "running" /\ Len(emitted) >= n)
              ~> (Len(Log) >= n /\ FeedsHaveLog)

\* C27 witness: two commands returned before the processing loop ran; the
\* loop then stored both events and sent them on two feeds.
C27_Witness ==
    /\ Len(Log) = 2 /\ Log = emitted
    /\ Len(store.orig.subscribers) = 2
    /\ \A s \in Subs : feed[s] = Log
    /\ subAt["extra"] = 0 /\ regPc["extra"] = "subscribed"

\* C28: a loop stops only when no producer of its channel is left and its
\* queue is empty: the processing loop has then stored every published event,
\* and a projection's live loop, which stops after the processing loop, has
\* applied every event of its feed; and once the CoreApi (with it the only
\* Sender of the ingestion channel) is dropped, the processing loop and then
\* every live loop do stop.
C28_LoopsDrainThenStop ==
    /\ [](storePc = "stopped" =>
             ~ProducerAlive /\ chan = <<>> /\ Log = emitted)
    /\ [](\A s \in Subs :
             regPc[s] = "stopped" =>
                 /\ ~SenderAlive(s)
                 /\ storePc = "stopped"
                 /\ rpos[s] = Len(feed[s])
                 /\ applied[s] = hist[s] \o feed[s])
    /\ (apiPc = "dropped") ~>
           (/\ storePc = "stopped"
            /\ \A s \in Subs : regPc[s] \in {"idle", "stopped", "gone"})

\* C28 witness: the CoreApi was dropped with events still queued; the
\* processing loop stored them and stopped, and both projections' loops
\* stopped, the one fed by the loop having applied both events.
C28_Witness ==
    /\ storePc = "stopped"
    /\ Len(Log) = 2
    /\ \A s \in Subs : regPc[s] = "stopped"
    /\ applied[CoreProjection] = Log

\* C22: with two projections registered, a projection that stalls (its
\* thread does not get the lock of its state, which a reader keeps) prevents
\* neither the processing loop from storing and fanning out every published
\* event nor the other projection from applying every event sent on its
\* feed.
C22_StalledProjectionBlocksNoOne ==
    /\ \A n \in 1 .. MaxLiveCmds :
          (storePc = "running" /\ Len(emitted) >= n)
              ~> (Len(Log) >= n /\ FeedsHaveLog)
    /\ \A s \in Subs : \A n \in 1 .. MaxLiveCmds :
          (Len(feed[s]) >= n /\ regPc[s] # "idle")
              ~> (rpos[s] >= n \/ held[s])

\* C22 witness: the further projection is stalled with two events waiting on
\* its feed, and the projection of the CoreApi has applied both.
C22_Witness ==
    /\ held["extra"] /\ ~held[CoreProjection]
    /\ Len(feed["extra"]) = 2 /\ rpos["extra"] = 0
    /\ Len(Log) = 2
    /\ applied[CoreProjection] = Log

\* the ids of the PersonCreated events among evs
CreatedIds(evs) ==
    [i \in {k \in 1 .. Len(evs) : evs[k].type = "PersonCreated"} |->
        evs[i].person_id]

\* a caller that is inside a PersonApi call
InCall(c) == callers[c].pc # "idle"

\* C21: with two callers of the PersonApi, every call runs under the one
\* lock of the service: a caller inside a call holds the lock, so at most one
\* is inside; the repository, the channel and the commit order change only by
\* the step of the caller that is inside; the ids the creates stored and
\* returned are pairwise different; between a move's get and its update the
\* person it read is still the stored one; a read returns what the repository
\* holds when it returns; and the events entered the channel in the order in
\* which their mutations were committed, at most the last one still to come.
C21_SerializedUnderLock ==
    /\ [](\A c \in Callers : InCall(c) => svcLock = c)
    /\ [][\A c \in Callers :
            InCall(c) /\ <<data, chan, committed>>' # <<data, chan, committed>>
                => callers'[c] # callers[c]]_vars
    /\ [](\A i, j \in DOMAIN CreatedIds(committed) :
            i # j => CreatedIds(committed)[i] # CreatedIds(committed)[j])
    /\ [](\A c, d \in Callers :
            /\ c # d
            /\ callers[c].op = "create_person" /\ callers[c].result # None
            /\ callers[d].op = "create_person" /\ callers[d].result # None
            => callers[c].result[1].val.id # callers[d].result[1].val.id)
    /\ [](\A c \in Callers :
            callers[c].pc = "got" => get(data, callers[c].id) = Ok(callers[c].cur[1]))
    /\ [](\A c \in Callers :
            callers[c].pc = "done" /\ callers[c].op = "get_person"
                => callers[c].result[1] = get(data, callers[c].id))
    /\ [](/\ chan = emitted
          /\ IsPrefix(emitted, committed)
          /\ Len(committed) <= Len(emitted) + 1)

\* C21 witness: both callers created a person and got different ids; one of
\* them is now inside a move, its update committed and its event not yet
\* published, while the other is outside.
C21_Witness ==
    /\ callers["t2"].pc = "idle" /\ callers["t2"].op = "create_person"
    /\ callers["t2"].result # None
    /\ callers["t1"].pc = "stored" /\ callers["t1"].op = "move_person"
    /\ callers["t1"].id = callers["t2"].result[1].val.id
    /\ svcLock = "t1"
    /\ Len(committed) = 3 /\ Len(emitted) = 2

\* C36: after any sequence of create_person and move_person commands, every
\* Person the repository holds carries the id of its slot: get_person(i),
\* when it succeeds, returns a Person whose id is i.
C36_StoredIdIsSlotId ==
    \A id \in 0 .. Len(data) :
        LET r == get_person(data, chan, id).result
        IN  r.ok => r.val.id = id

\* C36 witness: two persons were created and the second was moved; both are
\* found under their ids.
C36_Witness ==
    /\ Len(data) = 2
    /\ last.op = "move_person" /\ last.result.ok /\ last.args[1] = 1
    /\ get_person(data, chan, 0).result.ok
    /\ get_person(data, chan, 1).result.val.id = 1

\* the step applies a PersonMoved whose from_location is its to_location
AppliedNoOpMove ==
    /\ fed' # fed
    /\ fed'[Len(fed')].type = "PersonMoved"
    /\ fed'[Len(fed')].from_location = fed'[Len(fed')].to_location

\* the set of ids get_people_at_location lists for l
OccupantsAt(o, l) == Elements(get_people_at_location(o, l))

\* C37 as stated: applying a PersonMoved with from_location equal to
\* to_location leaves the set of occupants of every location unchanged.
C37_Original ==
    [][AppliedNoOpMove =>
         \A l \in Locations : OccupantsAt(occupancy', l) = OccupantsAt(occupancy, l)]_vars

\* C37, amended: applying a PersonMoved with from_location equal to
\* to_location leaves every other location's list unchanged and makes that
\* location's list its other occupants, in their order, followed by the
\* person. When the person was listed at that location the set of occupants
\* of every location and the set of occupied locations are unchanged (also
\* when the person was the sole occupant); when it was not, the person joins
\* the occupants of that location.
C37_NoOpMoveKeepsOccupantsOfListedPerson ==
    [][AppliedNoOpMove =>
         LET e == fed'[Len(fed')]
             at == e.to_location
             before == get_people_at_location(occupancy, at)
         IN  /\ \A l \in Locations \ {at} :
                    get_people_at_location(occupancy', l) =
                        get_people_at_location(occupancy, l)
             /\ get_people_at_location(occupancy', at) =
                    Append(SelectSeq(before, LAMBDA id : id # e.person_id),
                           e.person_id)
             /\ IF e.person_id \in Elements(before)
                THEN /\ \A l \in Locations :
                            OccupantsAt(occupancy', l) = OccupantsAt(occupancy, l)
                     /\ get_occupied_locations(occupancy') =
                            get_occupied_locations(occupancy)
                ELSE OccupantsAt(occupancy', at) =
                         OccupantsAt(occupancy, at) \cup {e.person_id}]_vars

\* C37 witness: persons 0 and 1 were created at one location and person 0
\* was then moved from that location to itself: it is now listed last.
C37_Witness ==
    \E l \in Locations :
        /\ fed = <<PersonCreated(0, "Alice", l), PersonCreated(1, "Alice", l),
                   PersonMoved(0, l, l)>>
        /\ occupancy[l] = <<1, 0>>

\* the step applies a PersonMoved of a person that from_location does not
\* list (it has no entry, or its list does not contain the person)
AppliedMoveOfUnlisted ==
    /\ fed' # fed
    /\ fed'[Len(fed')].type = "PersonMoved"
    /\ fed'[Len(fed')].person_id \notin
           OccupantsAt(occupancy, fed'[Len(fed')].from_location)

\* C38: applying a PersonMoved whose from_location has no entry, or whose
\* list does not contain the person, removes nothing: every location other
\* than to_location keeps its list (and its entry), and the list of
\* to_location is its former list with the person appended.
C38_MoveOfUnlistedOnlyAppends ==
    [][AppliedMoveOfUnlisted =>
         LET e == fed'[Len(fed')]
         IN  /\ \A l \in Locations \ {e.to_location} :
                    get_people_at_location(occupancy', l) =
                        get_people_at_location(occupancy, l)
             /\ get_occupied_locations(occupancy') =
                    get_occupied_locations(occupancy) \cup {e.to_location}
             /\ get_people_at_location(occupancy', e.to_location) =
                    Append(get_people_at_location(occupancy, e.to_location),
                           e.person_id)]_vars

\* C38 witness: person 1 is at a location and a PersonMoved of person 0 away
\* from that location was applied: person 1 is still there and person 0 is at
\* the destination.
C38_Witness ==
    \E l, m \in Locations :
        /\ l # m
        /\ fed = <<PersonCreated(1, "Alice", l), PersonMoved(0, l, m)>>
        /\ occupancy[l] = <<1>>
        /\ occupancy[m] = <<0>>

\* C38 witness for the location without an entry: the first event applied is
\* a PersonMoved.
C38_NoEntryWitness ==
    /\ Len(fed) = 1 /\ fed[1].type = "PersonMoved"
    /\ fed[1].from_location # fed[1].to_location
    /\ get_occupied_locations(occupancy) = {fed[1].to_location}

\* the events of each person in es form a chain: the first is a
\* PersonCreated, and a PersonMoved leaves from the location the person's
\* previous event carried
EventChain(es) ==
    /\ \A i \in 1 .. Len(es) :
          LastEventBefore(es, es[i].person_id, i) = 0 => es[i].type = "PersonCreated"
    /\ MovesFromCurrent(es)

\* C32: the events the Domain Service has emitted, with two callers of the
\* PersonApi running their calls concurrently, form a chain for each person:
\* its first event is PersonCreated, and the from_location of each of its
\* PersonMoved events is the location of its previous event (the created
\* location or the previous to_location); the same holds of the events whose
\* mutation is committed.
C32_EventsChainPerPerson ==
    EventChain(emitted) /\ EventChain(committed)

\* C32 witness: one caller created a person, and each of the two callers
\* then moved it to another location than it was at.
C32_Witness ==
    /\ Len(emitted) = 3
    /\ emitted[1].type = "PersonCreated"
    /\ emitted[2].type = "PersonMoved" /\ emitted[3].type = "PersonMoved"
    /\ emitted[2].from_location # emitted[2].to_location
    /\ emitted[3].from_location # emitted[3].to_location
    /\ \A c \in Callers : callers[c].op = "move_person" /\ callers[c].result # None

\* the places (location, position in its list) at which o lists person p
PlacesOf(o, p) ==
    UNION {{<<l, i>> : i \in {k \in 1 .. Len(o[l]) : o[l][k] = p}} : l \in DOMAIN o}

\* the persons whose PersonCreated is among es
CreatedIn(es) == {es[i].person_id : i \in {k \in 1 .. Len(es) : es[k].type = "PersonCreated"}}

\* C33: a projection that has applied the first events the Domain Service
\* emitted, each once and in order, lists every person created by them at
\* exactly one place: in one location's list and once in it. It holds in
\* every state, hence after each single event applied.
C33_EachPersonListedOnce ==
    \A s \in Subs :
        IsPrefix(applied[s], emitted) =>
            \A p \in CreatedIn(applied[s]) : Cardinality(PlacesOf(proj[s], p)) = 1

\* C33 witness: the projection of the CoreApi has applied every emitted
\* event: two persons created at one location and a move of the first to the
\* other location.
C33_Witness ==
    /\ applied[CoreProjection] = emitted
    /\ Len(emitted) = 3
    /\ emitted[1].type = "PersonCreated" /\ emitted[2].type = "PersonCreated"
    /\ emitted[1].location = emitted[2].location
    /\ emitted[3].type = "PersonMoved" /\ emitted[3].person_id = 0
    /\ emitted[3].from_location # emitted[3].to_location
    /\ get_occupied_location_count(proj[CoreProjection]) = 2

\* the persons the Entity Store holds
LivePersons == {get(data, id).val : id \in {i \in 0 .. Len(data) : get(data, i).ok}}

\* C31: once a projection has applied every event the Domain Service
\* emitted, each once and in order, the read model matches the write model:
\* every Person p of the Entity Store is among the people at p.location, and
\* the occupied locations are exactly the locations of the stored persons.
C31_ReadModelMatchesWriteModel ==
    \A s \in Subs :
        applied[s] = emitted =>
            /\ \A p \in LivePersons :
                  p.id \in Elements(get_people_at_location(proj[s], p.location))
            /\ get_occupied_locations(proj[s]) = {p.location : p \in LivePersons}

\* C31 witness: two persons were created and a move succeeded last; the
\* projection of the CoreApi has applied every emitted event and shows one
\* person at each location.
C31_Witness ==
    /\ emitted # <<>> /\ applied[CoreProjection] = emitted
    /\ Cardinality(LivePersons) = 2
    /\ last.op = "move_person" /\ last.result.ok
    /\ \A l \in Locations : Len(get_people_at_location(proj[CoreProjection], l)) = 1

\* what a query of projection s sees when it holds the lock: the state
\* before initialize, or the state after the whole snapshot and some of the
\* feed's events, each applied completely
SeesWholeEvents(s) ==
    \/ regPc[s] = "spawned" /\ proj[s] = EmptyOccupancy /\ applied[s] = <<>>
    \/ /\ regPc[s] \in {"live", "received"}
       /\ Len(applied[s]) >= Len(hist[s])
       /\ applied[s] = hist[s] \o SubSeq(feed[s], 1, Len(applied[s]) - Len(hist[s]))
       /\ proj[s] = ApplyAll(EmptyOccupancy, applied[s])

\* C34: a query holds the projection's lock only while the projection's
\* thread does not: never between initialize() and after_rebuild(), never
\* inside an apply of the live loop. What it reads is therefore the state
\* before initialize or the state after the whole snapshot and a number of
\* live events, never a partly replayed snapshot and never an event applied
\* by half.
C34_QuerySeesWholeEvents ==
    \A s \in Subs : held[s] => regPc[s] \notin ThreadHolds /\ SeesWholeEvents(s)

\* C34 witness: the snapshot held two events; a query holds the lock after
\* the replay and after a live PersonMoved was applied, while the thread
\* waits for the lock with the next event.
C34_Witness ==
    LET s == CoreProjection
    IN  /\ held[s] /\ regPc[s] = "received"
        /\ Len(hist[s]) = 2 /\ Len(applied[s]) = 3
        /\ applied[s][3].type = "PersonMoved"
        /\ proj[s] # ApplyAll(EmptyOccupancy, hist[s])

\* the states no query sees are reached: a snapshot replayed in part, and a
\* PersonMoved applied by half
C34_PartialStatesExist ==
    LET s == CoreProjection
    IN  \/ regPc[s] = "replaying" /\ Len(applied[s]) = 1 /\ Len(hist[s]) = 2
           /\ proj[s] # ApplyAll(EmptyOccupancy, hist[s])
        \/ regPc[s] = "half" /\ proj[s] # ApplyAll(EmptyOccupancy, applied[s])

\* the Mutexes the threads hold: a caller, the thread of create_event_store,
\* the processing loop, the thread of the projection
LocksOfCaller(c) == IF HoldsLock(c) THEN {MutexOf(callers[c].op)} ELSE {}
LocksOfSwap == IF storePc = "swapping" THEN {"store"} ELSE {}
LocksOfProcessing == {}
LocksOfProjection == IF regPc[CoreProjection] \in ThreadHolds THEN {"projection"} ELSE {}

\* the threads that hold Mutex m
HoldersOf(m) ==
    {c \in Callers : m \in LocksOfCaller(c)}
        \cup (IF m \in LocksOfSwap THEN {"swap"} ELSE {})
        \cup (IF m \in LocksOfProjection THEN {"thread"} ELSE {})

\* the loops wait in recv: the processing loop on the empty ingestion
\* channel, the projection's thread on its feed with every event read
ProcessingInRecv == storePc = "running" /\ chan = <<>>
ProjectionInRecv ==
    regPc[CoreProjection] = "live" /\ rpos[CoreProjection] = Len(feed[CoreProjection])

\* C35: no Mutex has two holders, no thread holds two of the three Mutexes,
\* a loop that waits in recv holds none, and every call that has started on
\* the PersonApi, the LocationApi or the EventApi returns, whether or not the
\* loops wait on empty channels.
C35_CallsReturn ==
    /\ [](\A m \in {"store", "service", "projection"} : Cardinality(HoldersOf(m)) <= 1)
    /\ [](/\ \A c \in Callers : Cardinality(LocksOfCaller(c)) <= 1
          /\ Cardinality(LocksOfSwap \cup LocksOfProcessing) <= 1
          /\ Cardinality(LocksOfProjection) <= 1)
    /\ [](/\ ProcessingInRecv => LocksOfProcessing = {}
          /\ ProjectionInRecv => LocksOfProjection = {})
    /\ \A c \in Callers : (callers[c].pc # "idle") ~> (callers[c].pc = "idle")

\* C35 witness: both loops wait in recv with nothing to receive, one caller
\* is inside a LocationApi query and the other waits for the same lock.
C35_Witness ==
    /\ ProcessingInRecv /\ ProjectionInRecv
    /\ callers["t1"].pc = "locked" /\ callers["t1"].op = "get_people_at"
    /\ callers["t2"].pc = "waiting" /\ callers["t2"].op = "get_people_at"

\* process_command has matched command r, so the arm it took is over
Taken(r) == requests[r].kind \in WithResponse /\ requests[r].state = "taken"

\* command r got exactly one response and its sender did not panic waiting
AnsweredOnce(r) ==
    Len(requests[r].responses) = 1 /\ requests[r].pc # "panicked"

\* C39: every request sent to the Lua worker with a response channel
\* (RunScript, Execute, RegisterCallback, ExecuteCallback) has received
\* exactly one response once process_command has handled it, and the call
\* that waits for the response does not fail.
C39_EveryRequestAnswered ==
    \A r \in DOMAIN requests : Taken(r) => AnsweredOnce(r)

\* C39, the requests process_command has an arm for: RunScript, Execute and
\* ExecuteCallback requests it has handled got exactly one response
C39_MatchedRequestsAnswered ==
    \A r \in DOMAIN requests :
        Taken(r) /\ requests[r].kind # "RegisterCallback" => AnsweredOnce(r)

\* C39, the state the counterexample ends in: a register_callback call has
\* panicked, its command handled with nothing sent on the response channel
C39_RegisterCallbackPanics ==
    \E r \in DOMAIN requests :
        /\ requests[r].kind = "RegisterCallback"
        /\ requests[r].state = "taken"
        /\ requests[r].responses = <<>>
        /\ requests[r].pc = "panicked"

\* C39, the end of the loop: run() returns only on a Shutdown command or
\* when the command channel is empty with every Sender dropped
C39_StopsOnShutdownOrClose ==
    [][engine = "running" /\ engine' = "stopped" =>
          \/ /\ command_rx # <<>>
             /\ requests[Head(command_rx)].kind = "Shutdown"
          \/ command_rx = <<>> /\ ~command_tx]_vars

====
